---- MODULE Spec2Model ----
(***************************************************************************)
(* A model of the dashspace CLI build command                              *)
(* (src/internal/commands/build): the build pipeline buildModule, the      *)
(* watch mode of Watcher.Watch, the descriptor extractors (identity block, *)
(* configuration steps) and the bundle packager.                           *)
(*                                                                         *)
(* Source text is modelled as a sequence of tokens, one token per piece of *)
(* text the extractors' patterns match as a unit; strings whose characters *)
(* matter (names, slugs, bundle text) are sequences of characters.         *)
(***************************************************************************)
EXTENDS Integers, Sequences, FiniteSets, TLC

VARIABLES
    opts,        \* BuildOptions: [strict, skipChecks, watch]
    project,     \* the source tree and what the external tools report on it
    builds,      \* one record per invocation of buildModule of the session
    disk,        \* the output directory: who wrote bundle.js and dashspace.json
    crashed,     \* the process died of a panic
    timer,       \* per watcher: "off" (no such watcher), "idle", "armed"
    elapsed,     \* 300 ms or more have passed since the last write event
    burstNo,     \* number of bursts of write events so far
    burstBuilds, \* rebuilds started for the current burst
    nEvents,     \* file writes made by the user so far
    fnArg,       \* argument of the function under study (function specifications)
    fnRes        \* its result, None before the call

vars == <<opts, project, builds, disk, crashed, timer, elapsed, burstNo,
          burstBuilds, nEvents, fnArg, fnRes>>

None == [none |-> TRUE]

(***************************************************************************)
(* Bounds.                                                                 *)
(***************************************************************************)
MaxBuilds == 4       \* invocations of buildModule in one session
MaxEvents == 2       \* file writes made by the user in one session
MaxDeviations == 1   \* how many ways a project differs from the base project
MaxNameLen == 2      \* characters of a module name
MaxBlockLen == 4     \* tokens of an identity block
MaxSteps == 2        \* step literals of a configuration-step array
MaxFields == 2       \* field literals of a step literal
MaxCodeLen == 2      \* bytes of a compiled code
MaxScanLen == 5      \* tokens of a text given to the block scan

BuildIds == 1..MaxBuilds

(***************************************************************************)
(* Characters and strings.                                                 *)
(***************************************************************************)
RECURSIVE SeqsUpTo(_, _)
SeqsUpTo(S, n) ==
    IF n = 0 THEN {<<>>}
    ELSE LET shorter == SeqsUpTo(S, n - 1)
         IN  shorter \cup {Append(s, x) : s \in {t \in shorter : Len(t) = n - 1}, x \in S}

\* strings.ToLower on the characters of the model
ToLower(c) == IF c = "A" THEN "a" ELSE IF c = "B" THEN "b" ELSE c

RECURSIVE MapToLower(_)
MapToLower(s) ==
    IF s = <<>> THEN <<>> ELSE <<ToLower(Head(s))>> \o MapToLower(Tail(s))

\* strings.ReplaceAll(s, old, new) for a one-character old; new is a string
RECURSIVE ReplaceAll(_, _, _)
ReplaceAll(s, old, new) ==
    IF s = <<>> THEN <<>>
    ELSE (IF Head(s) = old THEN new ELSE <<Head(s)>>) \o ReplaceAll(Tail(s), old, new)

sanitizeSlug(name) ==
    LET s1 == MapToLower(name)
        s2 == ReplaceAll(s1, " ", <<"-">>)
        s3 == ReplaceAll(s2, "@", <<>>)
        s4 == ReplaceAll(s3, "/", <<"-">>)
    IN  ReplaceAll(s4, "_", <<"-">>)

\* strconv.Atoi on a string of digits
DigitValue(c) ==
    CASE c = "0" -> 0 [] c = "1" -> 1 [] c = "2" -> 2 [] c = "3" -> 3 [] c = "4" -> 4
      [] c = "5" -> 5 [] c = "6" -> 6 [] c = "7" -> 7 [] c = "8" -> 8 [] c = "9" -> 9

RECURSIVE AtoiFrom(_, _)
AtoiFrom(s, acc) ==
    IF s = <<>> THEN acc ELSE AtoiFrom(Tail(s), acc * 10 + DigitValue(Head(s)))

Atoi(s) == AtoiFrom(s, 0)

(***************************************************************************)
(* The identity pass.  An identity block is the text between the braces of *)
(* the options object of the module constructor call: a sequence of        *)
(* tokens [k, v], k a key with its string value v, or k = "{" / "}" for    *)
(* the braces of a nested object (the webhooks sub-object).                *)
(***************************************************************************)
Tok(k, v) == [k |-> k, v |-> v]

DefaultVersion == <<"1", ".", "0", ".", "0">>

\* the submatch of \{([^}]*)\} : the text up to the first closing brace
RECURSIVE UpToCloseBrace(_)
UpToCloseBrace(block) ==
    IF block = <<>> \/ Head(block).k = "}" THEN <<>>
    ELSE <<Head(block)>> \o UpToCloseBrace(Tail(block))

\* the submatch of key:\s*['"]([^'"]+)['"] (or key:\s*(\d+)): the first
\* non-empty value written for the key, "" when no text matches
RECURSIVE FirstValue(_, _)
FirstValue(content, key) ==
    IF content = <<>> THEN <<>>
    ELSE IF Head(content).k = key /\ Head(content).v # <<>> THEN Head(content).v
    ELSE FirstValue(Tail(content), key)

parseMetadataFields(content) ==
    [ID      |-> Atoi(FirstValue(content, "id")),
     Slug    |-> FirstValue(content, "slug"),
     Name    |-> FirstValue(content, "name"),
     Version |-> FirstValue(content, "version")]

MetadataContent(block) == UpToCloseBrace(block)

ExtractMetadata(block) ==
    LET config == parseMetadataFields(MetadataContent(block))
    IN  IF config.ID = 0 THEN [ok |-> FALSE, config |-> config]
        ELSE IF config.Name = <<>> THEN [ok |-> FALSE, config |-> config]
        ELSE [ok |-> TRUE,
              config |-> [config EXCEPT
                  !.Version = IF @ = <<>> THEN DefaultVersion ELSE @,
                  !.Slug = IF @ = <<>> THEN sanitizeSlug(config.Name) ELSE @]]

\* a descriptor check that accepts an empty slug
ValidateMetadataWithoutSlug(config) ==
    /\ config.ID # 0
    /\ config.Name # <<>>
    /\ config.Version # <<>>

ValidateMetadata(config) ==
    /\ config.ID # 0
    /\ config.Name # <<>>
    /\ config.Version # <<>>
    /\ config.Slug # <<>>

(***************************************************************************)
(* The configuration-steps pass.  The text of the steps array is a         *)
(* sequence of tokens: "newStep" for `new ConfigurationStep(`, "newField"  *)
(* for `new <Class>Field(` (v holds the class name), the delimiters "{",   *)
(* "}", "[", "]", the keys "fields:", "validation:", "options:", and       *)
(* key/value tokens such as id: 'x'.                                       *)
(***************************************************************************)
\* positions of the tokens with key k, in increasing order (FindAllStringIndex)
RECURSIVE AllIndexFrom(_, _, _)
AllIndexFrom(text, k, from) ==
    IF from > Len(text) THEN <<>>
    ELSE (IF text[from].k = k THEN <<from>> ELSE <<>>) \o AllIndexFrom(text, k, from + 1)

AllIndex(text, k) == AllIndexFrom(text, k, 1)

\* strings.Index: the first position at or after from of a token with key k, 0 if none
RECURSIVE IndexFrom(_, _, _)
IndexFrom(text, k, from) ==
    IF from > Len(text) THEN 0
    ELSE IF text[from].k = k THEN from
    ELSE IndexFrom(text, k, from + 1)

\* a scan that takes the last closer of the text, as a greedy pattern would
LastClose(text, open, close, j, count) ==
    LET closers == {i \in j..Len(text) : text[i].k = close}
    IN  IF closers = {} THEN 0 ELSE CHOOSE i \in closers : \A k \in closers : k <= i

\* the depth-counting loop: from position j with the count so far, the position
\* of the closer at which the count returns to zero, 0 if it never does
RECURSIVE ScanClose(_, _, _, _, _)
ScanClose(text, open, close, j, count) ==
    IF j > Len(text) THEN 0
    ELSE IF text[j].k = open THEN ScanClose(text, open, close, j + 1, count + 1)
    ELSE IF text[j].k = close
         THEN IF count - 1 = 0 THEN j ELSE ScanClose(text, open, close, j + 1, count - 1)
    ELSE ScanClose(text, open, close, j + 1, count)

\* the variant of a scan that stops at the first closer, whatever the depth
FirstClose(text, open, close, j, count) == IndexFrom(text, close, j)

MatchClose(text, open, close, j, count) == ScanClose(text, open, close, j, count)

\* text[from : to] of the code, as positions from+1 .. to
Slice(text, from, to) == SubSeq(text, from, to)

getFieldType(fieldClass) ==
    CASE fieldClass = "TextField" -> "text"
      [] fieldClass = "NumberField" -> "number"
      [] fieldClass = "SelectField" -> "select"
      [] fieldClass = "BooleanField" -> "boolean"
      [] OTHER -> "text"

\* one field literal, given the block that starts at its `new <Class>Field(`
ParseFieldBlock(fieldBlock) ==
    LET openBrace == IndexFrom(fieldBlock, "{", 1)
        closeBrace == IF openBrace = 0 THEN 0
                      ELSE MatchClose(fieldBlock, "{", "}", openBrace, 0)
    IN  IF openBrace = 0 \/ closeBrace = 0 THEN <<>>
        ELSE LET fieldContent == Slice(fieldBlock, openBrace + 1, closeBrace - 1)
             IN  << [type |-> getFieldType(fieldBlock[1].v[1]),
                     name |-> FirstValue(fieldContent, "name")] >>

RECURSIVE FieldsOfStarts(_, _, _)
FieldsOfStarts(fieldsContent, starts, i) ==
    IF i > Len(starts) THEN <<>>
    ELSE LET endPos == IF i < Len(starts) THEN starts[i + 1] - 1 ELSE Len(fieldsContent)
             fieldBlock == Slice(fieldsContent, starts[i], endPos)
         IN  ParseFieldBlock(fieldBlock) \o FieldsOfStarts(fieldsContent, starts, i + 1)

extractFields(stepContent) ==
    LET fieldsIdx == IndexFrom(stepContent, "fields:", 1)
        actualStart == IF fieldsIdx = 0 THEN 0 ELSE IndexFrom(stepContent, "[", fieldsIdx + 1)
        arrayEnd == IF actualStart = 0 THEN 0
                    ELSE MatchClose(stepContent, "[", "]", actualStart, 0)
    IN  IF fieldsIdx = 0 \/ actualStart = 0 \/ arrayEnd = 0 THEN <<>>
        ELSE LET fieldsContent == Slice(stepContent, actualStart + 1, arrayEnd - 1)
             IN  FieldsOfStarts(fieldsContent, AllIndex(fieldsContent, "newField"), 1)

\* extractNumberValue: -1 when the pattern does not match
extractNumberValue(content, key) ==
    IF FirstValue(content, key) = <<>> THEN -1 ELSE Atoi(FirstValue(content, key))

\* the step map: a key is present only when its pattern matched
parseStep(stepContent) ==
    [id          |-> FirstValue(stepContent, "id"),
     title       |-> FirstValue(stepContent, "title"),
     description |-> FirstValue(stepContent, "description"),
     order       |-> extractNumberValue(stepContent, "order"),
     optional    |-> FirstValue(stepContent, "optional") = <<"true">>,
     fields      |-> extractFields(stepContent)]

\* len(step) of the step map
StepMapSize(step) ==
    (IF step.id # <<>> THEN 1 ELSE 0) + (IF step.title # <<>> THEN 1 ELSE 0)
    + (IF step.description # <<>> THEN 1 ELSE 0) + (IF step.order # -1 THEN 1 ELSE 0)
    + (IF step.optional THEN 1 ELSE 0) + (IF Len(step.fields) > 0 THEN 1 ELSE 0)

KeepStep(step) == StepMapSize(step) > 0

RECURSIVE StepsOfStarts(_, _, _)
StepsOfStarts(stepsContent, starts, i) ==
    IF i > Len(starts) THEN <<>>
    ELSE LET endPos == IF i < Len(starts) THEN starts[i + 1] - 1 ELSE Len(stepsContent)
             stepBlock == Slice(stepsContent, starts[i], endPos)
             openBrace == IndexFrom(stepBlock, "{", 1)
             closeBrace == IF openBrace = 0 THEN 0
                           ELSE MatchClose(stepBlock, "{", "}", openBrace, 0)
             found == IF openBrace = 0 \/ closeBrace = 0 THEN <<>>
                      ELSE LET step == parseStep(Slice(stepBlock, openBrace + 1, closeBrace - 1))
                           IN  IF KeepStep(step) THEN <<step>> ELSE <<>>
         IN  found \o StepsOfStarts(stepsContent, starts, i + 1)

ExtractSteps(stepsContent) ==
    StepsOfStarts(stepsContent, AllIndex(stepsContent, "newStep"), 1)

(***************************************************************************)
(* The project: the source tree a build reads, and what the external tools *)
(* (npm, tsc, eslint, esbuild, the file system) report when run on it.     *)
(* The base project is a complete valid module; the other projects differ  *)
(* from it in at most MaxDeviations ways.                                  *)
(***************************************************************************)
BaseIdentity == << Tok("id", <<"1">>), Tok("name", <<"A", "b">>) >>

BaseSteps ==
    << Tok("newStep", <<>>), Tok("{", <<>>), Tok("id", <<"s">>), Tok("fields:", <<>>),
       Tok("[", <<>>), Tok("newField", <<"TextField">>), Tok("{", <<>>),
       Tok("name", <<"n">>), Tok("}", <<>>), Tok("]", <<>>), Tok("}", <<>>) >>

BaseProject ==
    [ moduleFile |-> TRUE,         \* Module.ts or Module.tsx exists
      packageJson |-> TRUE,        \* package.json exists
      component |-> TRUE,          \* Component.tsx exists
      identity |-> BaseIdentity,   \* the identity block of the module file
      steps |-> BaseSteps,         \* the text of the configuration-steps array
      providers |-> 1,             \* provider literals of the providers array
      interfaces |-> <<"Searchable">>,  \* the declared interfaces
      handlers |-> "ok",           \* what ValidateImplementation finds in the component
      webhooks |-> "full",         \* the webhooks sub-object: none, full, noEvents, noProvider
      whModule |-> "ok",           \* the module side: ok, noBase, noRegistration (no
                                   \* registerWebhookHandler call), unregisteredEvent
                                   \* (calls, but none for a declared event), noEventType
      whComponent |-> "ok",        \* the component side: ok, noHooks, unhandled
      whSecurity |-> "ok",         \* security hygiene: ok, warn
      permissions |-> "known",     \* getPermissions: none, known, unknown
      dataSchema |-> "valid",      \* useDataProvider: none, valid, noDataType, badDataType, badFieldType
      npm |-> "ok", tsc |-> "ok", libCompat |-> "ok", ifaceTsc |-> "ok",
      unused |-> "ok", satisfies |-> "ok", eslint |-> "ok", pkgJson |-> "ok",
      common |-> "ok", mkdir |-> "ok", compile |-> "ok", polyfill |-> TRUE,
      writeBundle |-> "ok", writeManifest |-> "ok", output |-> "ok",
      newWatcher |-> "ok" ]

DeviationNames ==
    << "noModule", "noPackageJson", "noComponent", "idZero", "noName", "atName",
       "noSteps", "blankStep", "noProviders", "noInterfaces", "badHandlers",
       "noWebhooks", "noEvents", "noProvider", "noBase", "noRegistration",
       "unregisteredEvent", "noEventType", "noHooks", "unhandled", "insecure",
       "noPermissions", "unknownPermission", "noSchema", "noDataType",
       "badDataType", "badFieldType", "npmFails", "tscFails", "libWarns",
       "libFails", "ifaceTscFails", "unusedWarns", "satisfiesWarns", "eslintWarns",
       "eslintFails", "pkgWarns", "pkgFails", "commonWarns", "mkdirFails",
       "compileFails", "noPolyfill", "bundleWriteFails", "manifestWriteFails",
       "outputFails", "watcherFails" >>

Deviate(p, d) ==
    CASE d = "noModule" -> [p EXCEPT !.moduleFile = FALSE]
      [] d = "noPackageJson" -> [p EXCEPT !.packageJson = FALSE]
      [] d = "noComponent" -> [p EXCEPT !.component = FALSE]
      [] d = "idZero" -> [p EXCEPT !.identity = << Tok("name", <<"A", "b">>) >>]
      [] d = "noName" -> [p EXCEPT !.identity = << Tok("id", <<"1">>) >>]
      [] d = "atName" ->
            [p EXCEPT !.identity = << Tok("id", <<"1">>), Tok("name", <<"@">>) >>]
      [] d = "noSteps" -> [p EXCEPT !.steps = <<>>]
      [] d = "blankStep" ->
            [p EXCEPT !.steps = << Tok("newStep", <<>>), Tok("{", <<>>), Tok("}", <<>>) >>]
      [] d = "noProviders" -> [p EXCEPT !.providers = 0]
      [] d = "noInterfaces" -> [p EXCEPT !.interfaces = <<>>]
      [] d = "badHandlers" -> [p EXCEPT !.handlers = "missingMethod"]
      [] d = "noWebhooks" -> [p EXCEPT !.webhooks = "none"]
      [] d = "noEvents" -> [p EXCEPT !.webhooks = "noEvents"]
      [] d = "noProvider" -> [p EXCEPT !.webhooks = "noProvider"]
      [] d = "noBase" -> [p EXCEPT !.whModule = "noBase"]
      [] d = "noRegistration" -> [p EXCEPT !.whModule = "noRegistration"]
      [] d = "unregisteredEvent" -> [p EXCEPT !.whModule = "unregisteredEvent"]
      [] d = "noEventType" -> [p EXCEPT !.whModule = "noEventType"]
      [] d = "noHooks" -> [p EXCEPT !.whComponent = "noHooks"]
      [] d = "unhandled" -> [p EXCEPT !.whComponent = "unhandled"]
      [] d = "insecure" -> [p EXCEPT !.whSecurity = "warn"]
      [] d = "noPermissions" -> [p EXCEPT !.permissions = "none"]
      [] d = "unknownPermission" -> [p EXCEPT !.permissions = "unknown"]
      [] d = "noSchema" -> [p EXCEPT !.dataSchema = "none"]
      [] d = "noDataType" -> [p EXCEPT !.dataSchema = "noDataType"]
      [] d = "badDataType" -> [p EXCEPT !.dataSchema = "badDataType"]
      [] d = "badFieldType" -> [p EXCEPT !.dataSchema = "badFieldType"]
      [] d = "npmFails" -> [p EXCEPT !.npm = "err"]
      [] d = "tscFails" -> [p EXCEPT !.tsc = "err"]
      [] d = "libWarns" -> [p EXCEPT !.libCompat = "warn"]
      [] d = "libFails" -> [p EXCEPT !.libCompat = "err"]
      [] d = "ifaceTscFails" -> [p EXCEPT !.ifaceTsc = "err"]
      [] d = "unusedWarns" -> [p EXCEPT !.unused = "warn"]
      [] d = "satisfiesWarns" -> [p EXCEPT !.satisfies = "warn"]
      [] d = "eslintWarns" -> [p EXCEPT !.eslint = "warn"]
      [] d = "eslintFails" -> [p EXCEPT !.eslint = "err"]
      [] d = "pkgWarns" -> [p EXCEPT !.pkgJson = "warn"]
      [] d = "pkgFails" -> [p EXCEPT !.pkgJson = "err"]
      [] d = "commonWarns" -> [p EXCEPT !.common = "warn"]
      [] d = "mkdirFails" -> [p EXCEPT !.mkdir = "err"]
      [] d = "compileFails" -> [p EXCEPT !.compile = "err"]
      [] d = "noPolyfill" -> [p EXCEPT !.polyfill = FALSE]
      [] d = "bundleWriteFails" -> [p EXCEPT !.writeBundle = "err"]
      [] d = "manifestWriteFails" -> [p EXCEPT !.writeManifest = "err"]
      [] d = "outputFails" -> [p EXCEPT !.output = "err"]
      [] d = "watcherFails" -> [p EXCEPT !.newWatcher = "err"]

RECURSIVE ProjectsWithin(_)
ProjectsWithin(k) ==
    IF k = 0 THEN {BaseProject}
    ELSE LET fewer == ProjectsWithin(k - 1)
         IN  fewer \cup {Deviate(p, DeviationNames[i]) :
                            p \in fewer, i \in 1..Len(DeviationNames)}

RECURSIVE DeviateAll(_, _)
DeviateAll(p, ds) ==
    IF ds = <<>> THEN p ELSE DeviateAll(Deviate(p, Head(ds)), Tail(ds))

\* a module with a valid identity and nothing else
BareProject ==
    DeviateAll(BaseProject, <<"noSteps", "noProviders", "noInterfaces", "noWebhooks",
                              "noPermissions", "noSchema">>)

\* the projects built: the full module and the bare one, each as it is and
\* with one deviation
Projects ==
    ProjectsWithin(MaxDeviations)
        \cup {BareProject}
        \cup {Deviate(BareProject, DeviationNames[i]) : i \in 1..Len(DeviationNames)}

\* the projects a watch session moves between when the user edits a file
WatchProjects == {BaseProject, Deviate(BaseProject, "compileFails")}

(***************************************************************************)
(* The validators, as verdicts: "ok", "warn" (a warning is printed and nil *)
(* returned), "err" (an error is returned), "panic".                       *)
(***************************************************************************)
\* a structure check to which a missing package.json is a warning
ValidateStructureWarningOnly(p) ==
    IF ~p.moduleFile THEN "fatal"
    ELSE IF ~p.packageJson \/ ~p.component THEN "warn"
    ELSE "ok"

ValidateStructure(p) ==
    IF ~p.moduleFile THEN "fatal"
    ELSE IF ~p.packageJson THEN "fatal"
    ELSE IF ~p.component THEN "warn"
    ELSE "ok"

ValidateInterfaceImplementation(p) ==
    IF ~p.moduleFile THEN "err"
    ELSE IF ~p.component THEN "warn"
    ELSE p.ifaceTsc

ValidateImplementation(p) ==
    IF ~p.component THEN "err"
    ELSE IF p.handlers = "ok" THEN "ok"
    ELSE "err"

ValidateWebhookConfiguration(webhooks) ==
    IF webhooks = "noProvider" THEN "err"
    ELSE IF webhooks = "noEvents" THEN "err"
    ELSE "ok"

\* the events are read with webhooks["events"].([]string), which panics when
\* the section has no events key
ValidateWebhookImplementation(webhooks, p) ==
    IF ~p.moduleFile THEN "err"
    ELSE IF p.whModule = "noBase" THEN "err"
    ELSE IF p.whModule # "noRegistration" /\ webhooks = "noEvents" THEN "panic"
    ELSE IF p.whModule = "noEventType" THEN "err"
    ELSE IF webhooks = "noEvents" THEN "panic"
    ELSE IF p.whModule \in {"noRegistration", "unregisteredEvent"} THEN "warn"
    ELSE "ok"

ValidateComponentWebhookUsage(webhooks, p) ==
    IF ~p.component THEN "warn"
    ELSE IF p.whComponent = "noHooks" THEN "warn"
    ELSE IF webhooks = "noEvents" THEN "panic"
    ELSE IF p.whComponent = "unhandled" THEN "warn"
    ELSE "ok"

ValidateWebhookSecurity(p) == IF ~p.moduleFile THEN "ok" ELSE p.whSecurity

ValidatePermissions(permissions) == IF permissions = "unknown" THEN "warn" ELSE "ok"

ExtractDataSchema(p) == IF ~p.component THEN "none" ELSE p.dataSchema

ValidateDataSchema(schema) ==
    IF schema = "none" THEN "ok"
    ELSE IF schema = "noDataType" THEN "warn"
    ELSE IF schema = "badDataType" THEN "err"
    ELSE IF schema = "badFieldType" THEN "err"
    ELSE "ok"

(***************************************************************************)
(* buildModule, one action per stage.  A build record holds the stage to   *)
(* run next (pc), the stages and validators run so far (ran), the stages   *)
(* that printed a warning (warned), those that returned an error (errs),   *)
(* the stage that ended the build (failedAt), the module text the parser   *)
(* loaded (parsed), the sections the extraction passes handed to the       *)
(* orchestrator (steps, providers, interfaces, webhooks, permissions,      *)
(* schema), config.RequiresSetup and the manifest once assembled.          *)
(***************************************************************************)
IdleBuild ==
    [pc |-> "idle", ran |-> <<>>, warned |-> {}, errs |-> {}, failedAt |-> "",
     parsed |-> BaseProject, steps |-> <<>>, requiresSetup |-> FALSE,
     providers |-> 0, interfaces |-> <<>>, webhooks |-> "none",
     permissions |-> "none", schema |-> "none", manifest |-> <<>>]

StartedBuild == [IdleBuild EXCEPT !.pc = "structure"]

EndStates == {"idle", "done", "failed", "watching", "crashed"}

InProgress(b) == builds[b].pc \notin EndStates

watchVars == <<timer, elapsed, burstNo, burstBuilds, nEvents>>

fnVars == <<fnArg, fnRes>>

\* a fatal error that does not end the build
OutcomeIgnoringFatal(r, stage, evs, res, nxt) ==
    LET r1 == [r EXCEPT !.ran = @ \o evs]
    IN  CASE res = "ok" -> [r1 EXCEPT !.pc = nxt]
          [] res = "warn" -> [r1 EXCEPT !.pc = nxt, !.warned = @ \cup {stage}]
          [] res = "err" ->
                IF opts.strict
                THEN [r1 EXCEPT !.pc = "failed", !.failedAt = stage, !.errs = @ \cup {stage}]
                ELSE [r1 EXCEPT !.pc = nxt, !.warned = @ \cup {stage},
                                !.errs = @ \cup {stage}]
          [] res = "fatal" -> [r1 EXCEPT !.pc = nxt, !.failedAt = stage]
          [] res = "panic" -> [r1 EXCEPT !.pc = "crashed", !.failedAt = stage]

\* what the orchestrator does with the verdict res of a stage: "fatal" is an
\* error it always returns, "err" an error it returns under strict and prints
\* as a warning otherwise
Outcome(r, stage, evs, res, nxt) ==
    LET r1 == [r EXCEPT !.ran = @ \o evs]
    IN  CASE res = "ok" -> [r1 EXCEPT !.pc = nxt]
          [] res = "warn" -> [r1 EXCEPT !.pc = nxt, !.warned = @ \cup {stage}]
          [] res = "err" ->
                IF opts.strict
                THEN [r1 EXCEPT !.pc = "failed", !.failedAt = stage, !.errs = @ \cup {stage}]
                ELSE [r1 EXCEPT !.pc = nxt, !.warned = @ \cup {stage},
                                !.errs = @ \cup {stage}]
          [] res = "fatal" -> [r1 EXCEPT !.pc = "failed", !.failedAt = stage]
          [] res = "panic" -> [r1 EXCEPT !.pc = "crashed", !.failedAt = stage]

At(b, stage) == ~crashed /\ builds[b].pc = stage

Settle(b, r, stage, evs, res, nxt) ==
    /\ builds' = [builds EXCEPT ![b] = Outcome(r, stage, evs, res, nxt)]
    /\ crashed' = (res = "panic")

\* a session whose watchers stop listening once a build has failed
DeliverWriteUnlessFailed ==
    /\ timer' = [w \in BuildIds |->
                    IF timer[w] = "off" \/ \E b \in BuildIds : builds[b].pc = "failed"
                    THEN timer[w] ELSE "armed"]
    /\ elapsed' = FALSE
    /\ burstNo' = IF elapsed THEN burstNo + 1 ELSE burstNo
    /\ burstBuilds' = IF elapsed THEN 0 ELSE burstBuilds

\* the write event of lines 32-44, handled by every watcher of the session:
\* each stops its timer and starts a new one
DeliverWrite ==
    /\ timer' = [w \in BuildIds |-> IF timer[w] = "off" THEN "off" ELSE "armed"]
    /\ elapsed' = FALSE
    /\ burstNo' = IF elapsed THEN burstNo + 1 ELSE burstNo
    /\ burstBuilds' = IF elapsed THEN 0 ELSE burstBuilds

HasWatcher == \E w \in BuildIds : timer[w] # "off"

Structure(b) ==
    /\ At(b, "structure")
    /\ Settle(b, builds[b], "structure", <<"structure">>, ValidateStructure(project), "deps")
    /\ UNCHANGED <<opts, project, disk, watchVars, fnVars>>

AfterDeps == IF opts.skipChecks THEN "mkdir" ELSE "typecheck"

Deps(b) ==
    /\ At(b, "deps")
    /\ Settle(b, builds[b], "deps", <<"deps">>,
              IF project.npm = "err" THEN "fatal" ELSE "ok", AfterDeps)
    /\ UNCHANGED <<opts, project, disk, watchVars, fnVars>>

TypeCheck(b) ==
    /\ At(b, "typecheck")
    /\ Settle(b, builds[b], "typecheck", <<"typecheck">>,
              IF project.tsc = "err" THEN "fatal" ELSE "ok", "libCompat")
    /\ UNCHANGED <<opts, project, disk, watchVars, fnVars>>

LibCompat(b) ==
    /\ At(b, "libCompat")
    /\ Settle(b, builds[b], "libCompat", <<"libCompat">>, project.libCompat, "ifacePrecheck")
    /\ UNCHANGED <<opts, project, disk, watchVars, fnVars>>

\* ValidateInterfaceImplementation writes .interface-check.ts into the project
\* directory, which the watchers of the session watch
IfacePrecheck(b) ==
    /\ At(b, "ifacePrecheck")
    /\ Settle(b, builds[b], "ifacePrecheck", <<"ifacePrecheck">>,
              ValidateInterfaceImplementation(project), "unused")
    /\ IF project.moduleFile /\ project.component /\ HasWatcher
       THEN DeliverWrite /\ UNCHANGED nEvents
       ELSE UNCHANGED watchVars
    /\ UNCHANGED <<opts, project, disk, fnVars>>

Unused(b) ==
    /\ At(b, "unused")
    /\ Settle(b, builds[b], "unused", <<"unused">>, project.unused, "satisfies")
    /\ UNCHANGED <<opts, project, disk, watchVars, fnVars>>

Satisfies(b) ==
    /\ At(b, "satisfies")
    /\ Settle(b, builds[b], "satisfies", <<"satisfies">>,
              IF project.component THEN project.satisfies ELSE "ok", "eslint")
    /\ UNCHANGED <<opts, project, disk, watchVars, fnVars>>

Eslint(b) ==
    /\ At(b, "eslint")
    /\ Settle(b, builds[b], "eslint", <<"eslint">>, project.eslint, "pkgJson")
    /\ UNCHANGED <<opts, project, disk, watchVars, fnVars>>

PkgJson(b) ==
    /\ At(b, "pkgJson")
    /\ Settle(b, builds[b], "pkgJson", <<"pkgJson">>, project.pkgJson, "common")
    /\ UNCHANGED <<opts, project, disk, watchVars, fnVars>>

Common(b) ==
    /\ At(b, "common")
    /\ Settle(b, builds[b], "common", <<"common">>, project.common, "mkdir")
    /\ UNCHANGED <<opts, project, disk, watchVars, fnVars>>

Mkdir(b) ==
    /\ At(b, "mkdir")
    /\ Settle(b, builds[b], "mkdir", <<"mkdir">>,
              IF project.mkdir = "err" THEN "fatal" ELSE "ok", "metadata")
    /\ UNCHANGED <<opts, project, disk, watchVars, fnVars>>

\* an identity pass that accepts a descriptor without id
MetadataVerdictWithoutId(p) ==
    IF ~p.moduleFile THEN "fatal"
    ELSE IF parseMetadataFields(MetadataContent(p.identity)).Name = <<>> THEN "fatal"
    ELSE "ok"

\* findModuleFile, ExtractMetadata and ValidateMetadata; the parser keeps the
\* module text it read for the extraction passes that follow
MetadataVerdict(p) ==
    IF ~p.moduleFile THEN "fatal"
    ELSE IF ~ExtractMetadata(p.identity).ok THEN "fatal"
    ELSE IF ~ValidateMetadata(ExtractMetadata(p.identity).config) THEN "fatal"
    ELSE "ok"

Metadata(b) ==
    /\ At(b, "metadata")
    /\ Settle(b, [builds[b] EXCEPT !.parsed = project], "metadata", <<"metadata">>,
              MetadataVerdict(project), "steps")
    /\ UNCHANGED <<opts, project, disk, watchVars, fnVars>>

\* config.RequiresSetup as lines 224-230 set it
RequiresSetupAlways(configSteps) == TRUE

RequiresSetup(configSteps) == Len(configSteps) > 0

Steps(b) ==
    /\ At(b, "steps")
    /\ LET configSteps == ExtractSteps(builds[b].parsed.steps)
       IN  Settle(b, [builds[b] EXCEPT !.steps = configSteps,
                                       !.requiresSetup = RequiresSetup(configSteps)],
                  "steps", <<"steps">>, "ok", "providers")
    /\ UNCHANGED <<opts, project, disk, watchVars, fnVars>>

Providers(b) ==
    /\ At(b, "providers")
    /\ Settle(b, [builds[b] EXCEPT !.providers = builds[b].parsed.providers],
              "providers", <<"providers">>, "ok", "interfaces")
    /\ UNCHANGED <<opts, project, disk, watchVars, fnVars>>

\* Parser.ExtractInterfaces: with a non-empty list it runs the interface
\* validator itself and returns its error
ExtractInterfaces(parsed, p) ==
    IF parsed.interfaces = <<>> THEN [interfaces |-> <<>>, validated |-> FALSE, res |-> "ok"]
    ELSE [interfaces |-> parsed.interfaces, validated |-> TRUE,
          res |-> ValidateImplementation(p)]

AfterInterfaces(found) ==
    IF found.res = "ok" /\ found.interfaces # <<>> /\ ~opts.skipChecks
    THEN "ifaceCheck" ELSE "webhooks"

Interfaces(b) ==
    /\ At(b, "interfaces")
    /\ LET found == ExtractInterfaces(builds[b].parsed, project)
           kept == IF found.res = "ok" THEN found.interfaces ELSE <<>>
       IN  Settle(b, [builds[b] EXCEPT !.interfaces = kept], "interfaces",
                  IF found.validated THEN <<"interfaces", "ifaceValidate">>
                  ELSE <<"interfaces">>,
                  found.res, AfterInterfaces(found))
    /\ UNCHANGED <<opts, project, disk, watchVars, fnVars>>

IfaceCheck(b) ==
    /\ At(b, "ifaceCheck")
    /\ Settle(b, builds[b], "ifaceCheck", <<"ifaceCheck">>,
              ValidateImplementation(project), "webhooks")
    /\ UNCHANGED <<opts, project, disk, watchVars, fnVars>>

AfterWebhooks(webhooks) ==
    IF webhooks # "none" /\ ~opts.skipChecks THEN "whConfig" ELSE "permissions"

Webhooks(b) ==
    /\ At(b, "webhooks")
    /\ Settle(b, [builds[b] EXCEPT !.webhooks = builds[b].parsed.webhooks],
              "webhooks", <<"webhooks">>, "ok",
              AfterWebhooks(builds[b].parsed.webhooks))
    /\ UNCHANGED <<opts, project, disk, watchVars, fnVars>>

WhConfig(b) ==
    /\ At(b, "whConfig")
    /\ Settle(b, builds[b], "whConfig", <<"whConfig">>,
              ValidateWebhookConfiguration(builds[b].parsed.webhooks), "whImpl")
    /\ UNCHANGED <<opts, project, disk, watchVars, fnVars>>

WhImpl(b) ==
    /\ At(b, "whImpl")
    /\ Settle(b, builds[b], "whImpl", <<"whImpl">>,
              ValidateWebhookImplementation(builds[b].parsed.webhooks, project), "whUsage")
    /\ UNCHANGED <<opts, project, disk, watchVars, fnVars>>

WhUsage(b) ==
    /\ At(b, "whUsage")
    /\ Settle(b, builds[b], "whUsage", <<"whUsage">>,
              ValidateComponentWebhookUsage(builds[b].parsed.webhooks, project),
              "whSecurity")
    /\ UNCHANGED <<opts, project, disk, watchVars, fnVars>>

WhSecurity(b) ==
    /\ At(b, "whSecurity")
    /\ Settle(b, builds[b], "whSecurity", <<"whSecurity">>,
              ValidateWebhookSecurity(project), "permissions")
    /\ UNCHANGED <<opts, project, disk, watchVars, fnVars>>

\* the permission validator runs whenever permissions were found
AfterPermissions(permissions) ==
    IF permissions # "none" THEN "permValidate" ELSE "dataSchema"

Permissions(b) ==
    /\ At(b, "permissions")
    /\ Settle(b, [builds[b] EXCEPT !.permissions = builds[b].parsed.permissions],
              "permissions", <<"permissions">>, "ok",
              AfterPermissions(builds[b].parsed.permissions))
    /\ UNCHANGED <<opts, project, disk, watchVars, fnVars>>

PermValidate(b) ==
    /\ At(b, "permValidate")
    /\ Settle(b, builds[b], "permValidate", <<"permValidate">>,
              ValidatePermissions(builds[b].parsed.permissions), "dataSchema")
    /\ UNCHANGED <<opts, project, disk, watchVars, fnVars>>

AfterDataSchema(schema) ==
    IF schema # "none" /\ ~opts.skipChecks THEN "schemaValidate" ELSE "compile"

DataSchema(b) ==
    /\ At(b, "dataSchema")
    /\ LET schema == ExtractDataSchema(project)
       IN  Settle(b, [builds[b] EXCEPT !.schema = schema], "dataSchema",
                  <<"dataSchema">>, "ok", AfterDataSchema(schema))
    /\ UNCHANGED <<opts, project, disk, watchVars, fnVars>>

SchemaValidate(b) ==
    /\ At(b, "schemaValidate")
    /\ Settle(b, builds[b], "schemaValidate", <<"schemaValidate">>,
              ValidateDataSchema(builds[b].schema), "compile")
    /\ UNCHANGED <<opts, project, disk, watchVars, fnVars>>

\* findEntryPoint and Compiler.Compile
Compile(b) ==
    /\ At(b, "compile")
    /\ Settle(b, builds[b], "compile", <<"compile">>,
              IF ~project.moduleFile \/ project.compile = "err" THEN "fatal" ELSE "ok",
              "generate")
    /\ UNCHANGED <<opts, project, disk, watchVars, fnVars>>

GenerateBundle(b) ==
    /\ At(b, "generate")
    /\ Settle(b, builds[b], "generate", <<"generate">>,
              IF project.polyfill THEN "ok" ELSE "warn", "writeBundle")
    /\ UNCHANGED <<opts, project, disk, watchVars, fnVars>>

\* a file of the output directory is <<>> when absent, <<0>> when left by an
\* earlier run, <<b>> when written by build b and <<b, 0>> when build b
\* truncated it and failed to write it out
Torn(b) == <<b, 0>>

\* ioutil.WriteFile opens the file with O_TRUNC and writes: when it fails the
\* file is as it was (the open failed) or cut short (a write failed)
WriteFile(old, b, res) ==
    IF res = "err" THEN {old, Torn(b)} ELSE {<<b>>}

WriteBundle(b) ==
    /\ At(b, "writeBundle")
    /\ Settle(b, builds[b], "writeBundle", <<"writeBundle">>,
              IF project.writeBundle = "err" THEN "fatal" ELSE "ok", "writeManifest")
    /\ \E file \in WriteFile(disk.bundle, b, project.writeBundle) :
          disk' = [disk EXCEPT !.bundle = file]
    /\ UNCHANGED <<opts, project, watchVars, fnVars>>

\* an orchestrator that validates the output under every flag combination
AfterWriteManifestAlways == "validateOutput"

AfterWriteManifest ==
    IF ~opts.skipChecks /\ opts.strict THEN "validateOutput" ELSE "finish"

OptionalKeys ==
    {"configuration_steps", "providers", "interfaces", "permissions", "webhooks",
     "data_schema"}

\* a manifest with every optional section, empty or not
BuildManifestWithEverySection(r) ==
    [requires_setup |-> r.requiresSetup, keys |-> OptionalKeys]

\* BuildManifest: requires_setup and the optional keys of the manifest
BuildManifest(r) ==
    [requires_setup |-> r.requiresSetup,
     keys |-> {k \in OptionalKeys :
                 \/ k = "configuration_steps" /\ r.requiresSetup /\ Len(r.steps) > 0
                 \/ k = "providers" /\ r.providers > 0
                 \/ k = "interfaces" /\ Len(r.interfaces) > 0
                 \/ k = "permissions" /\ r.permissions # "none"
                 \/ k = "webhooks" /\ r.webhooks # "none"
                 \/ k = "data_schema" /\ r.schema # "none"}]

\* BuildManifest and WriteManifest
WriteManifest(b) ==
    /\ At(b, "writeManifest")
    /\ Settle(b, [builds[b] EXCEPT !.manifest = <<BuildManifest(builds[b])>>],
              "writeManifest", <<"writeManifest">>,
              IF project.writeManifest = "err" THEN "fatal" ELSE "ok", AfterWriteManifest)
    /\ \E file \in WriteFile(disk.manifest, b, project.writeManifest) :
          disk' = [disk EXCEPT !.manifest = file]
    /\ UNCHANGED <<opts, project, watchVars, fnVars>>

ValidateOutput(b) ==
    /\ At(b, "validateOutput")
    /\ Settle(b, builds[b], "validateOutput", <<"validateOutput">>,
              IF project.output = "err" THEN "fatal" ELSE "ok", "finish")
    /\ UNCHANGED <<opts, project, disk, watchVars, fnVars>>

\* the end of buildModule: the summary, and under --watch a new Watcher whose
\* callback is buildModule(opts) again; Watch then blocks for ever
Finish(b) ==
    /\ At(b, "finish")
    /\ crashed' = crashed
    /\ IF ~opts.watch
       THEN /\ builds' = [builds EXCEPT ![b].pc = "done"]
            /\ timer' = timer
       ELSE IF project.newWatcher = "err"
       THEN /\ builds' = [builds EXCEPT ![b].pc = "failed", ![b].failedAt = "watch"]
            /\ timer' = timer
       ELSE /\ builds' = [builds EXCEPT ![b].pc = "watching"]
            /\ timer' = [timer EXCEPT ![b] = "idle"]
    /\ UNCHANGED <<opts, project, disk, elapsed, burstNo, burstBuilds, nEvents, fnVars>>

(***************************************************************************)
(* Watcher.Watch.  Watcher w is the one created at the end of build w.     *)
(* timer[w] is "off" before the watcher exists, "idle" when its debounce   *)
(* timer is not pending and "armed" when it is.  elapsed tells that the    *)
(* debounce window has run out since the last write event, so that the     *)
(* next write event begins a new burst.                                    *)
(***************************************************************************)
Started == {b \in BuildIds : builds[b].pc # "idle"}

\* the user saves a watched file
FileWrite(p) ==
    /\ ~crashed
    /\ HasWatcher
    /\ nEvents < MaxEvents
    /\ project' = p
    /\ nEvents' = nEvents + 1
    /\ DeliverWrite
    /\ UNCHANGED <<opts, builds, disk, crashed, fnVars>>

\* the debounce timer of watcher w runs out: time.AfterFunc runs the
\* callback, buildModule(opts), in a goroutine of its own
TimerFire(w) ==
    /\ ~crashed
    /\ timer[w] = "armed"
    /\ Cardinality(Started) < MaxBuilds
    /\ timer' = [timer EXCEPT ![w] = "idle"]
    /\ builds' = [builds EXCEPT ![Cardinality(Started) + 1] = StartedBuild]
    /\ elapsed' = TRUE
    /\ burstBuilds' = burstBuilds + 1
    /\ UNCHANGED <<opts, project, disk, crashed, burstNo, nEvents, fnVars>>

Stage(b) ==
    \/ Structure(b)
    \/ Deps(b)
    \/ TypeCheck(b)
    \/ LibCompat(b)
    \/ IfacePrecheck(b)
    \/ Unused(b)
    \/ Satisfies(b)
    \/ Eslint(b)
    \/ PkgJson(b)
    \/ Common(b)
    \/ Mkdir(b)
    \/ Metadata(b)
    \/ Steps(b)
    \/ Providers(b)
    \/ Interfaces(b)
    \/ IfaceCheck(b)
    \/ Webhooks(b)
    \/ WhConfig(b)
    \/ WhImpl(b)
    \/ WhUsage(b)
    \/ WhSecurity(b)
    \/ Permissions(b)
    \/ PermValidate(b)
    \/ DataSchema(b)
    \/ SchemaValidate(b)
    \/ Compile(b)
    \/ GenerateBundle(b)
    \/ WriteBundle(b)
    \/ WriteManifest(b)
    \/ ValidateOutput(b)
    \/ Finish(b)

NoDisk == [bundle |-> <<>>, manifest |-> <<>>]

OldDisk == [bundle |-> <<0>>, manifest |-> <<0>>]

InitCommon ==
    /\ builds = [b \in BuildIds |-> IF b = 1 THEN StartedBuild ELSE IdleBuild]
    /\ disk \in {NoDisk, OldDisk}
    /\ crashed = FALSE
    /\ timer = [b \in BuildIds |-> "off"]
    /\ elapsed = TRUE
    /\ burstNo = 0
    /\ burstBuilds = 0
    /\ nEvents = 0
    /\ fnArg = None
    /\ fnRes = None

\* dashspace build, without --watch
Init ==
    /\ opts \in [strict : BOOLEAN, skipChecks : BOOLEAN, watch : {FALSE}]
    /\ project \in Projects
    /\ InitCommon

Next == \E b \in BuildIds : Stage(b)

Spec == Init /\ [][Next]_vars

\* dashspace build --watch, strict as by default
InitWatch ==
    /\ opts \in [strict : {TRUE}, skipChecks : BOOLEAN, watch : {TRUE}]
    /\ project \in WatchProjects
    /\ InitCommon

NextWatch ==
    \/ \E b \in BuildIds : Stage(b)
    \/ \E p \in WatchProjects : FileWrite(p)
    \/ \E w \in BuildIds : TimerFire(w)

SpecWatch == InitWatch /\ [][NextWatch]_vars

\* the watch session under the default options on an empty output
\* directory, with its scheduling: a debounce timer that is pending runs
\* out (time.AfterFunc)
InitWatchFair ==
    /\ InitWatch
    /\ ~opts.skipChecks
    /\ disk = NoDisk

SpecWatchFair ==
    /\ InitWatchFair
    /\ [][NextWatch]_vars
    /\ WF_vars(\E w \in BuildIds : TimerFire(w))

(***************************************************************************)
(* Properties of the build pipeline and of the watch session.              *)
(***************************************************************************)
InFlight == {b \in BuildIds : InProgress(b)}

Events(b) == {builds[b].ran[i] : i \in 1..Len(builds[b].ran)}

Succeeded(b) == builds[b].pc \in {"done", "watching"}

OptionalBlock ==
    {"typecheck", "libCompat", "ifacePrecheck", "unused", "satisfies", "eslint",
     "pkgJson", "common"}

SectionValidators ==
    {"ifaceValidate", "ifaceCheck", "whConfig", "whImpl", "whUsage", "whSecurity",
     "permValidate", "schemaValidate"}

\* the stages whose verdict is that of a per-section validator
ValidatorStages ==
    {"interfaces", "ifaceCheck", "whConfig", "whImpl", "whUsage", "whSecurity",
     "permValidate", "schemaValidate"}

ExtractionPasses ==
    {"metadata", "steps", "providers", "interfaces", "webhooks", "permissions",
     "dataSchema"}

StageOrder ==
    <<"structure", "deps", "typecheck", "libCompat", "ifacePrecheck", "unused",
      "satisfies", "eslint", "pkgJson", "common", "mkdir", "metadata", "steps",
      "providers", "interfaces", "ifaceValidate", "ifaceCheck", "webhooks",
      "whConfig", "whImpl", "whUsage", "whSecurity", "permissions", "permValidate",
      "dataSchema", "schemaValidate", "compile", "generate", "writeBundle",
      "writeManifest", "validateOutput">>

OrderOf(e) == CHOOSE i \in 1..Len(StageOrder) : StageOrder[i] = e

InOrder(ran) ==
    \A i \in 1..Len(ran) - 1 : OrderOf(ran[i]) < OrderOf(ran[i + 1])

LastEvent(b) == builds[b].ran[Len(builds[b].ran)]

\* C1: in watch mode at most one run of buildModule is in progress at any
\* time, whatever file-write events arrive and whenever they arrive.
C1_AtMostOneBuildInFlight == Cardinality(InFlight) <= 1

\* C1, the case: a debounce timer has started a rebuild in a watch session.
C1_RebuildStarted == opts.watch /\ \E b \in BuildIds : b > 1 /\ InProgress(b)

\* C2: every burst of file-write events causes exactly one rebuild: never
\* more than one, and one once the debounce window of the burst has run out.
C2_OneRebuildPerBurst ==
    burstNo > 0 =>
        /\ burstBuilds <= 1
        /\ elapsed => burstBuilds = 1

\* C2, the case: a burst after the first has had its rebuild.
C2_LaterBurstRebuilt == burstNo > 1 /\ elapsed /\ burstBuilds >= 1

\* C3: in every build the stages run strictly in the order of the pipeline,
\* and once a stage has returned a fatal error the build has stopped with
\* that stage as the last one run.
C3_StagesInOrder ==
    \A b \in BuildIds :
        /\ InOrder(builds[b].ran)
        /\ builds[b].failedAt \in Events(b) =>
              /\ builds[b].pc \in {"failed", "crashed"}
              /\ \/ LastEvent(b) = builds[b].failedAt
                 \/ builds[b].failedAt = "interfaces" /\ LastEvent(b) = "ifaceValidate"

\* C3, the case: a build stopped by a fatal error in the middle of the
\* pipeline, at compilation.
C3_FailedMidway ==
    \E b \in BuildIds : builds[b].pc = "failed" /\ builds[b].failedAt = "compile"

\* C4: with strict on and skip-checks off no build succeeds after a stage of
\* the optional block or a per-section validator reported a warning.
C4_StrictPromotesEveryWarning ==
    (opts.strict /\ ~opts.skipChecks) =>
        \A b \in BuildIds :
            Succeeded(b) =>
                builds[b].warned \cap (OptionalBlock \cup ValidatorStages) = {}

\* C4, the case: under strict a validator error did end the build.
C4_StrictAborted ==
    /\ opts.strict /\ ~opts.skipChecks
    /\ \E b \in BuildIds : builds[b].pc = "failed" /\ builds[b].failedAt = "eslint"

\* C5: with strict off no build ends at the interface, webhook, permission
\* or data-schema validator.
C5_LenientNeverAborts ==
    ~opts.strict =>
        \A b \in BuildIds : builds[b].failedAt \notin ValidatorStages

\* C5, the case: with strict off a validator error was printed as a warning
\* and the build went on to write bundle and manifest.
C5_Downgraded ==
    /\ ~opts.strict
    /\ \E b \in BuildIds : Succeeded(b) /\ "schemaValidate" \in builds[b].errs

\* C6: with skip-checks on no stage of the optional block and no section
\* validator runs, and a build that succeeds has run every extraction pass.
C6_SkipChecksRunsNoValidator ==
    opts.skipChecks =>
        \A b \in BuildIds :
            /\ Events(b) \cap (OptionalBlock \cup SectionValidators) = {}
            /\ Succeeded(b) => ExtractionPasses \subseteq Events(b)

\* C6, the case: a build under skip-checks ran to the end.
C6_SkippedAndDone ==
    opts.skipChecks /\ \E b \in BuildIds : Succeeded(b)

LaterThanIdentity ==
    {StageOrder[i] : i \in OrderOf("metadata") + 1..Len(StageOrder)}

NoId(b) ==
    /\ "metadata" \in Events(b)
    /\ parseMetadataFields(MetadataContent(builds[b].parsed.identity)).ID = 0

\* C7: a build whose identity block yields id = 0 fails at the identity
\* pass, runs no later extraction pass, no compilation, and writes neither
\* bundle nor manifest.
C7_NoIdFailsAtIdentity ==
    \A b \in BuildIds :
        NoId(b) =>
            /\ builds[b].pc = "failed"
            /\ builds[b].failedAt = "metadata"
            /\ Events(b) \cap LaterThanIdentity = {}
            /\ disk.bundle # <<b>>
            /\ disk.manifest # <<b>>

\* C7, the case: the identity pass ran on a block without id, in the most
\* lenient mode.
C7_NoIdSeen ==
    /\ ~opts.strict /\ opts.skipChecks
    /\ \E b \in BuildIds : NoId(b)

(***************************************************************************)
(* The identity pass on its own: ExtractMetadata applied to the identity   *)
(* blocks of up to MaxBlockLen tokens.  fnArg holds the block, fnRes the   *)
(* result once the pass has run.                                           *)
(***************************************************************************)
NameChars == {"A", " ", "@", "_"}

Names == SeqsUpTo(NameChars, MaxNameLen) \ {<<>>}

BlockKinds == {"id", "name", "version", "slug", "{", "}"}

\* the nesting depth after each token never drops below zero and ends at zero
RECURSIVE Balanced(_, _)
Balanced(shape, depth) ==
    IF shape = <<>> THEN depth = 0
    ELSE IF Head(shape) = "{" THEN Balanced(Tail(shape), depth + 1)
    ELSE IF Head(shape) = "}" THEN depth > 0 /\ Balanced(Tail(shape), depth - 1)
    ELSE Balanced(Tail(shape), depth)

BlockShapes == {sh \in SeqsUpTo(BlockKinds, MaxBlockLen) : Balanced(sh, 0)}

IdentityToken(kind, name) ==
    CASE kind = "id" -> Tok("id", <<"7">>)
      [] kind = "name" -> Tok("name", name)
      [] kind = "version" -> Tok("version", <<"2", ".", "1">>)
      [] kind = "slug" -> Tok("slug", <<"m", "y">>)
      [] OTHER -> Tok(kind, <<>>)

IdentityBlock(shape, name) == [i \in 1..Len(shape) |-> IdentityToken(shape[i], name)]

IdleSession ==
    /\ opts = [strict |-> TRUE, skipChecks |-> FALSE, watch |-> FALSE]
    /\ project = BaseProject
    /\ builds = [b \in BuildIds |-> IdleBuild]
    /\ disk = NoDisk
    /\ crashed = FALSE
    /\ timer = [b \in BuildIds |-> "off"]
    /\ elapsed = TRUE
    /\ burstNo = 0
    /\ burstBuilds = 0
    /\ nEvents = 0

sessionVars == <<opts, project, builds, disk, crashed, watchVars>>

InitMeta ==
    /\ IdleSession
    /\ fnArg \in {[block |-> IdentityBlock(sh, n)] : sh \in BlockShapes, n \in Names}
    /\ fnRes = [st |-> "none"]

RunExtractMetadata ==
    /\ fnRes.st = "none"
    /\ fnRes' = [st |-> "done",
                 ok |-> ExtractMetadata(fnArg.block).ok,
                 config |-> ExtractMetadata(fnArg.block).config]
    /\ UNCHANGED <<sessionVars, fnArg>>

NextMeta == RunExtractMetadata

SpecMeta == InitMeta /\ [][NextMeta]_vars

\* the keys written in the identity block itself, those of nested objects left out
RECURSIVE TopLevel(_, _)
TopLevel(block, depth) ==
    IF block = <<>> THEN <<>>
    ELSE IF Head(block).k = "{" THEN TopLevel(Tail(block), depth + 1)
    ELSE IF Head(block).k = "}" THEN TopLevel(Tail(block), depth - 1)
    ELSE (IF depth = 0 THEN <<Head(block)>> ELSE <<>>) \o TopLevel(Tail(block), depth)

Given(block, key) == FirstValue(TopLevel(block, 0), key)

\* C8: for an identity block that gives id and name, extraction succeeds,
\* the version is the given one or else "1.0.0", and the slug is the given
\* one or else the lower-kebab transform of the name.
C8_IdentityDefaults ==
    (fnRes.st = "done" /\ Given(fnArg.block, "id") # <<>> /\ Given(fnArg.block, "name") # <<>>) =>
        /\ fnRes.ok
        /\ fnRes.config.Version =
              IF Given(fnArg.block, "version") # <<>> THEN Given(fnArg.block, "version")
              ELSE DefaultVersion
        /\ fnRes.config.Slug =
              IF Given(fnArg.block, "slug") # <<>> THEN Given(fnArg.block, "slug")
              ELSE sanitizeSlug(Given(fnArg.block, "name"))

\* C8, the case: extraction ran on a block with id and name and neither
\* version nor slug, and filled in both defaults.
C8_DefaultsFilled ==
    /\ fnRes.st = "done"
    /\ Given(fnArg.block, "id") # <<>> /\ Given(fnArg.block, "name") # <<>>
    /\ Given(fnArg.block, "version") = <<>> /\ Given(fnArg.block, "slug") = <<>>
    /\ fnRes.ok
    /\ fnRes.config.Version = DefaultVersion
    /\ fnRes.config.Slug = sanitizeSlug(Given(fnArg.block, "name"))

(***************************************************************************)
(* The configuration-steps pass on its own: ExtractSteps applied to the    *)
(* arrays of up to MaxSteps step literals, each with up to MaxFields field *)
(* literals.  A step literal is described by whether it has an id and by   *)
(* the kinds of its field literals: "plain" for new TextField({...}) and   *)
(* "nested" for a field with a validation sub-object.                      *)
(***************************************************************************)
FieldKinds == {"plain", "nested"}

StepShapes == [hasId : BOOLEAN, fields : SeqsUpTo(FieldKinds, MaxFields)]

StepArrays == SeqsUpTo(StepShapes, MaxSteps)

Digits == <<"1", "2", "3", "4", "5", "6", "7", "8", "9">>

FieldText(kind) ==
    CASE kind = "plain" ->
            << Tok("newField", <<"TextField">>), Tok("{", <<>>), Tok("name", <<"n">>),
               Tok("}", <<>>) >>
      [] kind = "nested" ->
            << Tok("newField", <<"NumberField">>), Tok("{", <<>>), Tok("name", <<"n">>),
               Tok("validation:", <<>>), Tok("{", <<>>), Tok("min", <<"1">>),
               Tok("}", <<>>), Tok("}", <<>>) >>

RECURSIVE FieldsText(_)
FieldsText(kinds) ==
    IF kinds = <<>> THEN <<>> ELSE FieldText(Head(kinds)) \o FieldsText(Tail(kinds))

\* the i-th step literal of an array; its id, when it has one, is the digit i
StepText(shape, i) ==
    << Tok("newStep", <<>>), Tok("{", <<>>) >>
    \o (IF shape.hasId THEN << Tok("id", <<Digits[i]>>) >> ELSE <<>>)
    \o (IF shape.fields = <<>> THEN <<>>
        ELSE << Tok("fields:", <<>>), Tok("[", <<>>) >> \o FieldsText(shape.fields)
             \o << Tok("]", <<>>) >>)
    \o << Tok("}", <<>>) >>

RECURSIVE ArrayTextFrom(_, _)
ArrayTextFrom(shapes, i) ==
    IF i > Len(shapes) THEN <<>>
    ELSE StepText(shapes[i], i) \o ArrayTextFrom(shapes, i + 1)

ArrayText(shapes) == ArrayTextFrom(shapes, 1)

InitSteps ==
    /\ IdleSession
    /\ fnArg \in {[shapes |-> a, text |-> ArrayText(a)] : a \in StepArrays}
    /\ fnRes = [st |-> "none"]

RunExtractSteps ==
    /\ fnRes.st = "none"
    /\ fnRes' = [st |-> "done", steps |-> ExtractSteps(fnArg.text)]
    /\ UNCHANGED <<sessionVars, fnArg>>

NextSteps == RunExtractSteps

SpecSteps == InitSteps /\ [][NextSteps]_vars

\* a step literal from which the extractor recovers at least one property
Recognised(shape) == shape.hasId \/ shape.fields # <<>>

\* the positions of an array whose step literal is recognised, in order
RecognisedAt(shapes) == SelectSeq([i \in 1..Len(shapes) |-> i], LAMBDA i : Recognised(shapes[i]))

\* C9 as stated: an array of N step literals yields exactly N steps, in
\* source order, the i-th with as many fields as the i-th literal has
\* field literals.
C9_EveryStepLiteralExtracted ==
    fnRes.st = "done" =>
        /\ Len(fnRes.steps) = Len(fnArg.shapes)
        /\ \A i \in 1..Len(fnArg.shapes) :
              i <= Len(fnRes.steps) =>
                  /\ fnArg.shapes[i].hasId => fnRes.steps[i].id = <<Digits[i]>>
                  /\ Len(fnRes.steps[i].fields) = Len(fnArg.shapes[i].fields)

\* C9, amended: the steps returned are those of the step literals from which
\* at least one property is recovered (here an id or a field literal), in
\* source order, each with as many fields as its literal has field literals.
C9_RecognisedStepsExtracted ==
    fnRes.st = "done" =>
        LET at == RecognisedAt(fnArg.shapes)
        IN  /\ Len(fnRes.steps) = Len(at)
            /\ \A j \in 1..Len(at) :
                  /\ fnRes.steps[j].id =
                        IF fnArg.shapes[at[j]].hasId THEN <<Digits[at[j]]>> ELSE <<>>
                  /\ Len(fnRes.steps[j].fields) = Len(fnArg.shapes[at[j]].fields)

\* C9, the case: two step literals, the first with a field that nests a
\* validation object, both extracted.
C9_NestedExtracted ==
    /\ fnRes.st = "done"
    /\ Len(fnArg.shapes) = 2
    /\ fnArg.shapes[1].fields = <<"nested">>
    /\ Len(fnRes.steps) = 2
    /\ Len(fnRes.steps[1].fields) = 1

(***************************************************************************)
(* Packaging on its own: Generator.Generate applied to compiled codes of   *)
(* up to MaxCodeLen bytes.  Texts are sequences of bytes.  The fixed text  *)
(* of the wrapper between its three verbs is abbreviated to one or two     *)
(* bytes per segment.  SHA-256 is not computed: Sum256 stands for it with  *)
(* a polynomial hash of the whole text, which like SHA-256 is a function   *)
(* of every byte of the text and of nothing else, and which has no         *)
(* collision among the texts of this model.                                *)
(***************************************************************************)
CodeBytes == {10, 97, 98}

Codes == SeqsUpTo(CodeBytes, MaxCodeLen)

ModuleIds == {7, 12}

\* the runtime template file: absent, or present with its text
PolyfillFiles == {[present |-> FALSE, text |-> <<>>],
                  [present |-> TRUE, text |-> <<>>],
                  [present |-> TRUE, text |-> <<112>>]}

\* the decimal digits of a positive integer, as bytes (the verb %d)
RECURSIVE Itoa(_)
Itoa(n) == IF n < 10 THEN <<48 + n>> ELSE Itoa(n \div 10) \o <<48 + (n % 10)>>

\* loadPolyfillTemplate: the text, or an error when the file is absent
loadPolyfillTemplate(file) ==
    IF file.present THEN [err |-> FALSE, text |-> file.text]
    ELSE [err |-> TRUE, text |-> <<>>]

\* a wrapper that leaves the compiled code out
wrapWithoutCode(moduleCode, polyfillContent, moduleID) ==
    <<109, 95>> \o Itoa(moduleID) \o <<123>> \o polyfillContent \o <<59>> \o <<125>>

\* fmt.Sprintf(wrapper, moduleID, polyfillContent, moduleCode)
wrapModule(moduleCode, polyfillContent, moduleID) ==
    <<109, 95>> \o Itoa(moduleID) \o <<123>> \o polyfillContent \o <<59>>
    \o moduleCode \o <<125>>

RECURSIVE Sum256From(_, _)
Sum256From(text, h) ==
    IF text = <<>> THEN h
    ELSE Sum256From(Tail(text), (h * 256 + Head(text) + 1) % 8388593)

Sum256(text) == Sum256From(text, 1)

\* hex.EncodeToString, on the six hexadecimal digits of the stand-in hash
HexDigit(d) == IF d < 10 THEN 48 + d ELSE 87 + d

RECURSIVE HexFrom(_, _)
HexFrom(n, width) ==
    IF width = 0 THEN <<>> ELSE HexFrom(n \div 16, width - 1) \o <<HexDigit(n % 16)>>

EncodeToString(n) == HexFrom(n, 6)

Generate(moduleCode, file, moduleID) ==
    LET loaded == loadPolyfillTemplate(file)
        polyfillContent == IF loaded.err THEN <<>> ELSE loaded.text
        wrappedCode == wrapModule(moduleCode, polyfillContent, moduleID)
    IN  [bundle |-> wrappedCode, checksum |-> EncodeToString(Sum256(wrappedCode)),
         warned |-> loaded.err]

NoBundle == [bundle |-> <<>>, checksum |-> <<>>, warned |-> FALSE]

\* fnArg: the compiled code, another compiled code, the module id and the
\* template file as it is now; fnRes: the outputs of a first and a second
\* Generate of the code, with the template text each of them read, and the
\* output of a Generate of the other code
InitGen ==
    /\ IdleSession
    /\ fnArg \in [code : Codes, other : Codes, id : ModuleIds, file : PolyfillFiles]
    /\ fnRes = [st |-> "none", first |-> NoBundle, firstRead |-> <<>>,
                again |-> NoBundle, againRead |-> <<>>, third |-> NoBundle]

GenerateFirst ==
    /\ fnRes.st = "none"
    /\ fnRes' = [fnRes EXCEPT !.st = "first",
                              !.first = Generate(fnArg.code, fnArg.file, fnArg.id),
                              !.firstRead = fnArg.file.text,
                              !.third = Generate(fnArg.other, fnArg.file, fnArg.id)]
    /\ UNCHANGED <<sessionVars, fnArg>>

\* the template file is replaced between two builds
ReplacePolyfill(file) ==
    /\ fnRes.st = "first"
    /\ file # fnArg.file
    /\ fnArg' = [fnArg EXCEPT !.file = file]
    /\ fnRes' = [fnRes EXCEPT !.st = "replaced"]
    /\ UNCHANGED sessionVars

GenerateAgain ==
    /\ fnRes.st \in {"first", "replaced"}
    /\ fnRes' = [fnRes EXCEPT !.st = "done",
                              !.again = Generate(fnArg.code, fnArg.file, fnArg.id),
                              !.againRead = fnArg.file.text]
    /\ UNCHANGED <<sessionVars, fnArg>>

NextGen ==
    \/ GenerateFirst
    \/ \E file \in PolyfillFiles : ReplacePolyfill(file)
    \/ GenerateAgain

SpecGen == InitGen /\ [][NextGen]_vars

requiredMethods(interfaceName) ==
    CASE interfaceName = "ISearchable" ->
            <<"search", "getSearchResults", "getSearchFilters", "translateUQLQuery",
              "getUQLCapabilities">>
      [] interfaceName = "IRefreshable" -> <<"refresh", "getLastRefresh", "setAutoRefresh">>
      [] interfaceName = "IExportable" -> <<"export", "getSupportedFormats", "exportData">>
      [] interfaceName = "IFilterable" ->
            <<"applyFilter", "clearFilters", "getCurrentFilter", "translateUQLQuery",
              "getUQLCapabilities">>
      [] interfaceName = "IThemeable" -> <<"applyTheme", "getThemeConfig", "getSupportedThemes">>
      [] interfaceName = "INotifiable" -> <<"sendNotification", "subscribe", "unsubscribe">>
      [] interfaceName = "IDataProvider" -> <<"getData", "getDataSchema", "subscribe">>
      [] interfaceName = "ISchedulable" -> <<"schedule", "unschedule", "getSchedule">>
      [] OTHER -> <<>>

\* the first "}" at or after position j that is followed by a token with one
\* of the keys in followers (and, for "satisfies", by the interface name),
\* 0 if none: the end of the lazy submatch \{(.*?)\} followed by the suffix
RECURSIVE BlockEnd(_, _, _, _)
BlockEnd(text, j, followers, interfaceName) ==
    IF j >= Len(text) THEN 0
    ELSE IF /\ text[j].k = "}"
            /\ text[j + 1].k \in followers
            /\ text[j + 1].k = "satisfies" => text[j + 1].v = <<interfaceName>>
         THEN j
    ELSE BlockEnd(text, j + 1, followers, interfaceName)

\* the position of the key of the interface block, 0 if none
RECURSIVE BlockStart(_, _, _)
BlockStart(text, j, interfaceName) ==
    IF j >= Len(text) THEN 0
    ELSE IF text[j] = Tok("iface", <<interfaceName>>) /\ text[j + 1].k = "{" THEN j
    ELSE BlockStart(text, j + 1, interfaceName)

HasMethod(interfaceBlock, method) ==
    \E i \in 1..Len(interfaceBlock) : interfaceBlock[i] = Tok("method", <<method>>)

validateInterfaceMethods(handlersContent, interfaceName) ==
    LET methods == requiredMethods(interfaceName)
        start == BlockStart(handlersContent, 1, interfaceName)
        first == IF start = 0 THEN 0
                 ELSE BlockEnd(handlersContent, start + 2, {"satisfies"}, interfaceName)
        close == IF start = 0 \/ first # 0 THEN first
                 ELSE BlockEnd(handlersContent, start + 2, {","}, interfaceName)
    IN  IF methods = <<>> THEN [err |-> "none", missing |-> <<>>]
        ELSE IF close = 0 THEN [err |-> "noBlock", missing |-> <<>>]
        ELSE LET interfaceBlock == Slice(handlersContent, start + 2, close - 1)
                 missingMethods == SelectSeq(methods, LAMBDA m : ~HasMethod(interfaceBlock, m))
             IN  IF Len(missingMethods) > 0
                 THEN [err |-> "missing", missing |-> missingMethods]
                 ELSE [err |-> "none", missing |-> <<>>]

MethodKinds == {"absent", "arrow", "body"}

MethodText(method, kind) ==
    CASE kind = "absent" -> <<>>
      [] kind = "arrow" -> << Tok("method", <<method>>), Tok(",", <<>>) >>
      [] kind = "body" ->
            << Tok("method", <<method>>), Tok("{", <<>>), Tok("}", <<>>), Tok(",", <<>>) >>

RECURSIVE MethodsText(_, _, _)
MethodsText(methods, kinds, i) ==
    IF i > Len(methods) THEN <<>>
    ELSE MethodText(methods[i], kinds[i]) \o MethodsText(methods, kinds, i + 1)

\* the handlers object with one interface block; the block is followed by
\* `satisfies <name>` or by a comma
HandlersText(interfaceName, kinds, satisfies) ==
    << Tok("iface", <<interfaceName>>), Tok("{", <<>>) >>
    \o MethodsText(requiredMethods(interfaceName), kinds, 1)
    \o << Tok("}", <<>>) >>
    \o (IF satisfies THEN << Tok("satisfies", <<interfaceName>>) >> ELSE <<>>)
    \o << Tok(",", <<>>) >>

InitMethods ==
    /\ IdleSession
    /\ fnArg \in {[name |-> n, kinds |-> k, text |-> HandlersText(n, k, sat)] :
                    n \in {"ISearchable"}, sat \in BOOLEAN,
                    k \in [1..Len(requiredMethods("ISearchable")) -> MethodKinds]}
              \cup {[name |-> n, kinds |-> k, text |-> HandlersText(n, k, sat)] :
                    n \in {"IRefreshable"}, sat \in BOOLEAN,
                    k \in [1..Len(requiredMethods("IRefreshable")) -> MethodKinds]}
    /\ fnRes = [st |-> "none"]

RunValidateInterfaceMethods ==
    /\ fnRes.st = "none"
    /\ fnRes' = [st |-> "done",
                 err |-> validateInterfaceMethods(fnArg.text, fnArg.name).err,
                 missing |-> validateInterfaceMethods(fnArg.text, fnArg.name).missing]
    /\ UNCHANGED <<sessionVars, fnArg>>

NextMethods == RunValidateInterfaceMethods

SpecMethods == InitMethods /\ [][NextMethods]_vars

\* the required methods that the block of the argument does not contain
AbsentMethods ==
    SelectSeq(requiredMethods(fnArg.name),
              LAMBDA m : \E i \in 1..Len(requiredMethods(fnArg.name)) :
                            requiredMethods(fnArg.name)[i] = m /\ fnArg.kinds[i] = "absent")

\* C11: when the block of a known interface lacks required methods, the
\* check fails and its error lists exactly the required methods absent from
\* the block.
C11_ExactlyTheAbsentMethods ==
    (fnRes.st = "done" /\ AbsentMethods # <<>>) =>
        /\ fnRes.err = "missing"
        /\ fnRes.missing = AbsentMethods

\* C11, the case: Searchable without getSearchFilters, reported as exactly
\* that method.
C11_OnlyFiltersMissing ==
    /\ fnRes.st = "done"
    /\ fnArg.name = "ISearchable"
    /\ AbsentMethods = <<"getSearchFilters">>
    /\ fnRes.err = "missing"
    /\ fnRes.missing = <<"getSearchFilters">>

(***************************************************************************)
(* Properties of the per-section validators.                               *)
(***************************************************************************)
\* the runs of the capability-implementation check: stage 3 of the optional
\* block, the validator inside the interfaces pass and the one after it
IfaceChecks == {"ifacePrecheck", "ifaceValidate", "ifaceCheck"}

\* C12: in a build of a module that declares no interfaces the
\* capability-implementation check does not run and is the source of no
\* warning and of no failure, whatever strict and skip-checks are.
C12_NoInterfacesNoCheck ==
    project.interfaces = <<>> =>
        \A b \in BuildIds :
            /\ Events(b) \cap IfaceChecks = {}
            /\ builds[b].warned \cap (IfaceChecks \cup {"interfaces"}) = {}
            /\ builds[b].failedAt \notin (IfaceChecks \cup {"interfaces"})

\* C12, the case: a module without interfaces whose build was ended by the
\* capability-implementation check.
C12_FailedWithoutInterfaces ==
    /\ project.interfaces = <<>>
    /\ \E b \in BuildIds :
          builds[b].pc = "failed" /\ builds[b].failedAt = "ifacePrecheck"

\* the module registers no handler for a declared webhook event
MissingRegistration == {"noRegistration", "unregisteredEvent"}

\* C13: when the webhook section declares an event that the module registers
\* no handler for, be it that the module registers none at all, the webhook
\* check warns and the build goes on with strict off, and the webhook check
\* ends the build with strict on.
C13_MissingRegistrationByPolicy ==
    \A b \in BuildIds :
        ( /\ "whImpl" \in Events(b)
          /\ builds[b].parsed.webhooks = "full"
          /\ project.whModule \in MissingRegistration ) =>
            IF opts.strict
            THEN builds[b].pc = "failed" /\ builds[b].failedAt = "whImpl"
            ELSE "whImpl" \in builds[b].warned /\ builds[b].pc # "failed"

\* C13, the case: under strict a build with an event left without handler
\* registration ran the webhook check and succeeded.
C13_StrictContinued ==
    /\ opts.strict
    /\ project.whModule = "unregisteredEvent"
    /\ \E b \in BuildIds : "whImpl" \in builds[b].warned /\ Succeeded(b)

\* C14: a build whose schema validator met a field of a type outside the
\* fixed set has failed at the schema validator, and a build whose
\* permission validator met a permission outside the whitelist carries a
\* warning of that validator and never fails there, under strict too.
C14_BadFieldTypeFatalBadPermissionWarns ==
    \A b \in BuildIds :
        /\ ("schemaValidate" \in Events(b) /\ builds[b].schema = "badFieldType") =>
              builds[b].pc = "failed" /\ builds[b].failedAt = "schemaValidate"
        /\ ("permValidate" \in Events(b) /\ builds[b].parsed.permissions = "unknown") =>
              /\ "permValidate" \in builds[b].warned
              /\ builds[b].failedAt # "permValidate"

\* C14, the case: a build wrote its manifest after the schema validator had
\* rejected a field type.
C14_BadFieldTypeShipped ==
    \E b \in BuildIds :
        /\ builds[b].schema = "badFieldType"
        /\ "schemaValidate" \in builds[b].errs
        /\ disk.manifest = <<b>>

(***************************************************************************)
(* Properties of the manifest.                                             *)
(***************************************************************************)
\* the builds whose manifest is the one in the output directory
Written == {b \in BuildIds : disk.manifest = <<b>> /\ builds[b].manifest # <<>>}

\* the optional sections that the extraction passes of build b left
\* non-empty
NonEmptySections(b) ==
    {k \in OptionalKeys :
        \/ k = "configuration_steps" /\ ExtractSteps(builds[b].parsed.steps) # <<>>
        \/ k = "providers" /\ builds[b].parsed.providers > 0
        \/ k = "interfaces" /\ builds[b].interfaces # <<>>
        \/ k = "permissions" /\ builds[b].parsed.permissions # "none"
        \/ k = "webhooks" /\ builds[b].parsed.webhooks # "none"
        \/ k = "data_schema" /\ builds[b].schema # "none"}

C16_RequiresSetupIffSteps ==
    \A b \in Written :
        /\ builds[b].manifest[1].requires_setup <=>
              Len(ExtractSteps(builds[b].parsed.steps)) >= 1
        /\ "configuration_steps" \in builds[b].manifest[1].keys <=>
              builds[b].manifest[1].requires_setup

\* C16, the case: a manifest written for a module whose steps array holds a
\* step literal from which nothing is recovered.
C16_BlankStepManifest ==
    \E b \in Written :
        /\ builds[b].parsed.steps # <<>>
        /\ ExtractSteps(builds[b].parsed.steps) = <<>>
        /\ ~builds[b].manifest[1].requires_setup

\* the manifest file as build b left it differs from what it was before
Touched(b) == disk.manifest \in {<<b>>, Torn(b)}

\* C17: a build that returned an error has left dashspace.json as it was
\* before the build started, present or absent.
C17_FailedBuildLeavesManifest ==
    \A b \in BuildIds : builds[b].pc = "failed" => ~Touched(b)

\* C17, the case: output validation failed a build whose manifest had just
\* been written in full.
C17_FailedAfterManifestWrite ==
    \E b \in BuildIds :
        /\ builds[b].pc = "failed"
        /\ builds[b].failedAt = "validateOutput"
        /\ disk.manifest = <<b>>

\* C18: a build of a project without module file or without package.json
\* has failed at the structure stage as soon as that stage has run, under
\* every setting of strict and skip-checks, has run no other stage and has
\* written neither bundle nor manifest.
C18_MissingFileFailsAtStructure ==
    \A b \in BuildIds :
        ("structure" \in Events(b) /\ (~project.moduleFile \/ ~project.packageJson)) =>
            /\ builds[b].pc = "failed"
            /\ builds[b].failedAt = "structure"
            /\ builds[b].ran = <<"structure">>
            /\ disk.bundle \notin {<<b>>, Torn(b)}
            /\ ~Touched(b)

\* C18, the case: the structure stage met a project without package.json in
\* the most lenient mode.
C18_NoPackageJsonLenient ==
    /\ ~opts.strict /\ opts.skipChecks
    /\ project.moduleFile /\ ~project.packageJson
    /\ \E b \in BuildIds : builds[b].failedAt = "structure"

\* the stages of build b that ran an external tool which reported failure
ToolFailures(b) ==
    {st \in {"typecheck", "eslint", "compile"} :
        /\ st \in Events(b)
        /\ \/ st = "typecheck" /\ project.tsc = "err"
           \/ st = "eslint" /\ project.eslint = "err"
           \/ st = "compile" /\ project.compile = "err"}

\* C19: a build in which the type-check, the lint or the compilation stage
\* ran and its tool reported failure has failed, at that stage, whatever
\* strict is.
C19_ToolFailureFailsBuild ==
    \A b \in BuildIds :
        ToolFailures(b) # {} =>
            builds[b].pc = "failed" /\ builds[b].failedAt \in ToolFailures(b)

\* C19, the case: with strict off a build whose lint run reported failure
\* went on and wrote its manifest.
C19_LintFailureShipped ==
    /\ ~opts.strict
    /\ \E b \in BuildIds : "eslint" \in ToolFailures(b) /\ disk.manifest = <<b>>

\* the descriptor the identity pass of build b made of the module text
Descriptor(b) == ExtractMetadata(builds[b].parsed.identity)

Complete(config) ==
    /\ config.ID # 0
    /\ config.Name # <<>>
    /\ config.Version # <<>>
    /\ config.Slug # <<>>

\* C20: a build that has run a stage after metadata extraction has a
\* descriptor with id other than 0 and non-empty name, version and slug, and
\* a build whose descriptor lacks one of them after defaulting has failed at
\* metadata extraction.
C20_DescriptorCompleteOrFatal ==
    \A b \in BuildIds :
        "metadata" \in Events(b) =>
            /\ Events(b) \cap LaterThanIdentity # {} =>
                  Descriptor(b).ok /\ Complete(Descriptor(b).config)
            /\ ~(Descriptor(b).ok /\ Complete(Descriptor(b).config)) =>
                  builds[b].pc = "failed" /\ builds[b].failedAt = "metadata"

\* C20, the case: a name from which the default slug comes out empty ended
\* the build at metadata extraction.
C20_EmptySlugRejected ==
    \E b \in BuildIds :
        /\ "metadata" \in Events(b)
        /\ Descriptor(b).ok
        /\ Descriptor(b).config.Slug = <<>>
        /\ builds[b].failedAt = "metadata"

(***************************************************************************)
(* The block scan on its own: the depth-counting loop of ExtractSteps,     *)
(* extractFields and extractValidationBlock applied to the texts of up to  *)
(* MaxScanLen tokens that begin with an opening brace, and the steps pass  *)
(* applied to the step literal that the text is the object of.             *)
(***************************************************************************)
ScanKinds == {"{", "}", "id"}

ScanToken(kind) == IF kind = "id" THEN Tok("id", <<"s">>) ELSE Tok(kind, <<>>)

ScanTexts ==
    {[i \in 1..Len(sh) + 1 |-> IF i = 1 THEN Tok("{", <<>>) ELSE ScanToken(sh[i - 1])] :
        sh \in SeqsUpTo(ScanKinds, MaxScanLen - 1)}

InitScan ==
    /\ IdleSession
    /\ fnArg \in {[text |-> t] : t \in ScanTexts}
    /\ fnRes = [st |-> "none"]

RunBlockScan ==
    /\ fnRes.st = "none"
    /\ fnRes' = [st |-> "done",
                 close |-> MatchClose(fnArg.text, "{", "}", 1, 0),
                 steps |-> ExtractSteps(<<Tok("newStep", <<>>)>> \o fnArg.text)]
    /\ UNCHANGED <<sessionVars, fnArg>>

NextScan == RunBlockScan

SpecScan == InitScan /\ [][NextScan]_vars

\* the nesting depth after position i: openers less closers among 1..i
Depth(text, i) ==
    Cardinality({k \in 1..i : text[k].k = "{"})
        - Cardinality({k \in 1..i : text[k].k = "}"})

\* C21: the block scan started at an opening brace returns the position of
\* the closing brace at which the depth first returns to zero, and returns
\* not found when the depth never returns to zero, in which case the steps
\* pass skips the literal.
C21_ScanFindsMatchingCloser ==
    fnRes.st = "done" =>
        LET text == fnArg.text
            zeros == {i \in 1..Len(text) : Depth(text, i) = 0}
        IN  IF zeros = {}
            THEN fnRes.close = 0 /\ fnRes.steps = <<>>
            ELSE /\ fnRes.close \in zeros
                 /\ \A i \in zeros : fnRes.close <= i
                 /\ text[fnRes.close].k = "}"

\* C21, the case: a scan that passed a nested block and left closers after
\* the matching one.
C21_NestedBlockClosed ==
    /\ fnRes.st = "done"
    /\ fnRes.close > 3
    /\ fnRes.close < Len(fnArg.text)
    /\ fnArg.text[Len(fnArg.text)].k = "}"

\* C22: output validation runs, and ends a build, only with strict on and
\* skip-checks off; under every other combination of the two a build whose
\* manifest write succeeded goes straight to its successful end.
C22_OutputValidationOnlyStrictChecked ==
    \A b \in BuildIds :
        /\ "validateOutput" \in Events(b) => opts.strict /\ ~opts.skipChecks
        /\ builds[b].failedAt = "validateOutput" => opts.strict /\ ~opts.skipChecks
        /\ ( /\ ~(opts.strict /\ ~opts.skipChecks)
              /\ "writeManifest" \in Events(b)
              /\ builds[b].failedAt # "writeManifest" ) =>
                builds[b].pc \in {"finish", "done"}

\* C22, the case: with strict off a build ended successfully although the
\* output would not have passed validation.
C22_BrokenOutputNotInspected ==
    /\ ~opts.strict
    /\ project.output = "err"
    /\ \E b \in BuildIds : builds[b].pc = "done"

\* the extraction passes that follow the identity pass
SubExtractions == ExtractionPasses \ {"metadata"}

\* C23: no build ends at a sub-extraction (steps, providers, interfaces,
\* webhooks, permissions, data schema), under strict either: when the pass
\* returns an error its section is empty and the build goes on.
C23_SubExtractionNeverAborts ==
    \A b \in BuildIds :
        /\ builds[b].failedAt \notin SubExtractions
        /\ \A st \in SubExtractions \cap builds[b].errs :
              builds[b].pc \notin {"failed", "crashed"} \/ builds[b].failedAt # st

\* C23, the case: under strict and skip-checks the interfaces pass returned
\* an error and the build ended there.
C23_InterfacesPassAborted ==
    /\ opts.strict /\ opts.skipChecks
    /\ \E b \in BuildIds :
          /\ builds[b].pc = "failed"
          /\ builds[b].failedAt = "interfaces"
          /\ "compile" \notin Events(b)

(***************************************************************************)
(* Properties of the watch session.                                        *)
(***************************************************************************)
\* the watchers of the session: those whose Watch call has begun
Watchers == {w \in BuildIds : timer[w] # "off"}

\* C24: a watch session has at most one file watcher, with one debounce
\* timer, however many rebuilds have run, and no burst of changes sets off
\* more than one rebuild.
C24_OneWatcherPerSession ==
    /\ Cardinality(Watchers) <= 1
    /\ Cardinality({w \in BuildIds : timer[w] = "armed"}) <= 1
    /\ burstNo > 0 => burstBuilds <= 1

\* C24, the case: a rebuild has run to its end and started a watcher of its
\* own beside the first.
C24_RebuildStartedWatcher ==
    \E w \in Watchers : w > 1 /\ 1 \in Watchers /\ builds[w].pc = "watching"

\* a rebuild of the session has returned an error
RebuildFailed == \E b \in BuildIds : b > 1 /\ builds[b].pc = "failed"

ChecksumMatches ==
    /\ Len(disk.bundle) = 1
    /\ disk.manifest = disk.bundle

\* C26: whenever no build is running and the output directory holds both
\* bundle.js and dashspace.json, the checksum of the manifest is that of
\* the bundle.
C26_ManifestChecksumIsBundles ==
    (InFlight = {} /\ disk.bundle # <<>> /\ disk.manifest # <<>>) => ChecksumMatches

\* C26, the case: a build wrote its bundle over that of an earlier run,
\* failed to write the manifest and left the earlier one.
C26_NewBundleOldManifest ==
    /\ InFlight = {}
    /\ disk = [bundle |-> <<1>>, manifest |-> <<0>>]
    /\ builds[1].failedAt = "writeManifest"

\* C27: with strict off the manifest a build writes records every interface
\* the module declares, whether or not the interface-implementation check
\* failed.
C27_DeclaredInterfacesRecorded ==
    ~opts.strict =>
        \A b \in Written :
            builds[b].parsed.interfaces # <<>> =>
                /\ builds[b].interfaces = builds[b].parsed.interfaces
                /\ "interfaces" \in builds[b].manifest[1].keys

\* C27, the case: with strict off a manifest was written without the
\* interfaces of a module that declares one, after the check had failed.
C27_InterfacesDropped ==
    /\ ~opts.strict
    /\ \E b \in Written :
          /\ builds[b].parsed.interfaces # <<>>
          /\ "interfaces" \in builds[b].errs
          /\ "interfaces" \notin builds[b].manifest[1].keys

\* the webhook validators
WebhookValidators == {"whConfig", "whImpl", "whUsage", "whSecurity"}

\* C28: whatever webhook section the extraction returned, no webhook
\* validator crashes the process, and with strict off no build ends at a
\* webhook validator.
C28_WebhookValidatorsNeverCrash ==
    /\ ~crashed
    /\ \A b \in BuildIds :
          /\ builds[b].pc # "crashed"
          /\ ~opts.strict => builds[b].failedAt \notin WebhookValidators

\* C28, the case: with strict off a section with a provider and no events
\* passed the configuration validator as a warning and the implementation
\* validator brought the process down.
C28_NoEventsCrashed ==
    /\ ~opts.strict
    /\ crashed
    /\ \E b \in BuildIds :
          /\ builds[b].parsed.webhooks = "noEvents"
          /\ "whConfig" \in builds[b].warned
          /\ builds[b].pc = "crashed"
          /\ builds[b].failedAt = "whImpl"

(***************************************************************************)
(* The web login: handleWebLogin waits in waitForAuthCallback for a        *)
(* callback on the temporary server and saves the response with            *)
(* saveAuthConfig.  The server goroutine, one handler goroutine for each   *)
(* callback and the waiting goroutine run concurrently; resultChan and     *)
(* errorChan are channels of capacity one.  fnArg holds the expected state *)
(* and fnRes the state of the login.                                       *)
(***************************************************************************)
MaxCallbacks == 3    \* callbacks received by the temporary server

CallbackIds == 1..MaxCallbacks

expectedState == "s1"

CallbackStates == {"s1", "s2"}

CallbackTokens == {"", "t1", "t2"}

ChanCap == 1

IdleHandler == [pc |-> "idle", state |-> "", token |-> ""]

InitAuth ==
    /\ IdleSession
    /\ fnArg = [expectedState |-> expectedState]
    /\ \E old \in {"", "t0"} :
         fnRes = [pc |-> "select",
                  outcome |-> "none",
                  returns |-> 0,
                  authResponse |-> <<>>,
                  resultChan |-> <<>>,
                  errorChan |-> <<>>,
                  server |-> "start",
                  closed |-> FALSE,
                  handlers |-> [c \in CallbackIds |-> IdleHandler],
                  cfg |-> [AuthToken |-> old],
                  file |-> [AuthToken |-> old]]

AuthStep(new) == fnRes' = new /\ UNCHANGED <<sessionVars, fnArg>>

\* the server goroutine: ListenAndServe binds the port or returns an error
ListenAndServe(ok) ==
    /\ fnRes.server = "start"
    /\ AuthStep([fnRes EXCEPT !.server =
                    IF fnRes.closed THEN "exit"
                    ELSE IF ok THEN "up" ELSE "sendErr"])

\* the server goroutine: errorChan <- err
SendListenError ==
    /\ fnRes.server = "sendErr"
    /\ Len(fnRes.errorChan) < ChanCap
    /\ AuthStep([fnRes EXCEPT !.errorChan = Append(@, "listen"),
                              !.server = "exit"])

\* the verdict of the handler on a request
HandlerBranch(state, token) ==
    IF state # fnArg.expectedState THEN "sendError"
    ELSE IF token = "" THEN "sendError"
    ELSE "sendResult"

\* a request on /auth/callback: the handler reads the query and answers
Callback(c, state, token) ==
    /\ fnRes.server = "up"
    /\ fnRes.handlers[c].pc = "idle"
    /\ \A d \in CallbackIds : d < c => fnRes.handlers[d].pc # "idle"
    /\ AuthStep([fnRes EXCEPT !.handlers[c] =
                    [pc |-> HandlerBranch(state, token),
                     state |-> state, token |-> token]])

\* the handler: resultChan <- authResponse
SendResult(c) ==
    /\ fnRes.handlers[c].pc = "sendResult"
    /\ Len(fnRes.resultChan) < ChanCap
    /\ AuthStep([fnRes EXCEPT !.resultChan = Append(@, fnRes.handlers[c].token),
                              !.handlers[c].pc = "done"])

\* the handler: errorChan <- fmt.Errorf(...)
SendError(c) ==
    /\ fnRes.handlers[c].pc = "sendError"
    /\ Len(fnRes.errorChan) < ChanCap
    /\ AuthStep([fnRes EXCEPT !.errorChan = Append(@, "callback"),
                              !.handlers[c].pc = "done"])

\* select: case authResponse := <-resultChan
SelectResult ==
    /\ fnRes.pc = "select"
    /\ fnRes.resultChan # <<>>
    /\ AuthStep([fnRes EXCEPT !.pc = "shutdown",
                              !.outcome = "response",
                              !.authResponse = <<Head(fnRes.resultChan)>>,
                              !.resultChan = Tail(@)])

\* select: case err := <-errorChan
SelectError ==
    /\ fnRes.pc = "select"
    /\ fnRes.errorChan # <<>>
    /\ AuthStep([fnRes EXCEPT !.pc = "shutdown",
                              !.outcome = "error",
                              !.errorChan = Tail(@)])

\* select: case <-ctx.Done()
SelectTimeout ==
    /\ fnRes.pc = "select"
    /\ AuthStep([fnRes EXCEPT !.pc = "shutdown", !.outcome = "timeout"])

\* server.Shutdown, first part: the listeners are closed
ShutdownClose ==
    /\ fnRes.pc = "shutdown"
    /\ AuthStep([fnRes EXCEPT !.pc = "drain",
                              !.closed = TRUE,
                              !.server = IF @ = "up" THEN "exit" ELSE @])

\* the handlers that have not returned
ActiveHandlers == {c \in CallbackIds : fnRes.handlers[c].pc \in {"sendResult", "sendError"}}

\* server.Shutdown, second part: with the background context it returns
\* when no connection is active any more, and the wait returns its outcome
ShutdownDone ==
    /\ fnRes.pc = "drain"
    /\ ActiveHandlers = {}
    /\ AuthStep([fnRes EXCEPT !.pc = "returned", !.returns = @ + 1])

\* handleWebLogin after the wait: an error is returned as it is, a response
\* goes to saveAuthConfig, whose SaveConfig writes the file or fails
saveAuthConfig(ok) ==
    /\ fnRes.pc = "returned"
    /\ fnRes.outcome = "response"
    /\ LET cfg == [AuthToken |-> fnRes.authResponse[1]]
       IN  AuthStep([fnRes EXCEPT !.pc = "done",
                                  !.cfg = cfg,
                                  !.file = IF ok THEN cfg ELSE @])

handleWebLoginFailed ==
    /\ fnRes.pc = "returned"
    /\ fnRes.outcome # "response"
    /\ AuthStep([fnRes EXCEPT !.pc = "done"])

NextAuth ==
    \/ \E ok \in BOOLEAN : ListenAndServe(ok)
    \/ SendListenError
    \/ \E c \in CallbackIds, state \in CallbackStates, token \in CallbackTokens :
          Callback(c, state, token)
    \/ \E c \in CallbackIds : SendResult(c)
    \/ \E c \in CallbackIds : SendError(c)
    \/ SelectResult
    \/ SelectError
    \/ SelectTimeout
    \/ ShutdownClose
    \/ ShutdownDone
    \/ \E ok \in BOOLEAN : saveAuthConfig(ok)
    \/ handleWebLoginFailed

SpecAuth == InitAuth /\ [][NextAuth]_vars

\* every goroutine that can run does run, and the five-minute context
\* expires while the select is still waiting
SpecAuthFair == SpecAuth /\ WF_vars(NextAuth)

\* the callbacks that carried the expected state and a token
ValidCallbacks ==
    {c \in CallbackIds : /\ fnRes.handlers[c].pc # "idle"
                         /\ fnRes.handlers[c].state = fnArg.expectedState
                         /\ fnRes.handlers[c].token # ""}

\* a response is returned, and a token is saved, only when a callback with
\* the expected state and a token was received, and it is that token
SavedOnlyFromValidCallback ==
    /\ fnRes.outcome = "response" =>
          \E c \in ValidCallbacks : fnRes.authResponse = <<fnRes.handlers[c].token>>
    /\ \/ fnRes.file = [AuthToken |-> "t0"]
       \/ fnRes.file = [AuthToken |-> ""]
       \/ /\ fnRes.outcome = "response"
          /\ fnRes.file = [AuthToken |-> fnRes.authResponse[1]]
    /\ ValidCallbacks = {} => fnRes.cfg = fnRes.file /\ fnRes.cfg.AuthToken \in {"", "t0"}
    /\ fnRes.returns <= 1

\* C29: a token is saved only from a callback with the expected state and
\* a non-empty token, no other callback causes a save, and for every
\* sequence of callbacks the wait returns one outcome.
C29_WaitReturnsOneOutcome ==
    /\ [](SavedOnlyFromValidCallback)
    /\ <>(fnRes.returns = 1)

\* C29, the case: the wait took an outcome and called Shutdown while a
\* handler is blocked sending on a full channel, so Shutdown never returns.
C29_ShutdownBlocked ==
    /\ fnRes.pc = "drain"
    /\ fnRes.returns = 0
    /\ \E c \in CallbackIds :
         /\ fnRes.handlers[c].pc = "sendError"
         /\ Len(fnRes.errorChan) = ChanCap

(***************************************************************************)
(* The publish command on an existing build directory: publishModule reads *)
(* dashspace.json, applies the module-id override, and then lists the      *)
(* files (dry run) or creates the archive and uploads it.  fnArg holds the *)
(* flags and the build directory before the run, fnRes the run.            *)
(***************************************************************************)
MaxModuleID == 2     \* largest module id of a file or of the -m flag

PublishIds == 0..MaxModuleID

\* dashspace.json as text: whether it parses, the id member when there is
\* one, and the order of the members (a build writes them in the order of
\* the manifest structure, the encoding of a map writes them sorted)
DashspaceJson(id, keys) == [valid |-> TRUE, id |-> id, keys |-> keys]

InvalidJson == [valid |-> FALSE, id |-> <<>>, keys |-> "none"]

DashspaceFiles ==
    {<<>>, <<InvalidJson>>}
        \cup {<<DashspaceJson(id, keys)>> :
                id \in {<<>>} \cup {<<n>> : n \in PublishIds},
                keys \in {"struct", "sorted"}}

\* json.MarshalIndent of the map
MarshalIndent(dashspaceConfig) == DashspaceJson(<<dashspaceConfig.id>>, "sorted")

\* what os.WriteFile leaves: the new text, or on failure the old or a cut one
WriteDashspaceJson(old, text, ok) ==
    IF ok THEN {<<text>>} ELSE {old, <<InvalidJson>>}

InitPublish ==
    /\ IdleSession
    /\ \E dryRun \in BOOLEAN, overrideModuleID \in PublishIds, file \in DashspaceFiles :
         /\ fnArg = [dryRun |-> dryRun,
                     overrideModuleID |-> overrideModuleID,
                     dir |-> [dashspaceJson |-> file, bundleJs |-> <<1>>]]
         /\ fnRes = [pc |-> "start",
                     err |-> "",
                     moduleID |-> 0,
                     dashspaceConfig |-> [id |-> 0],
                     dir |-> [dashspaceJson |-> file, bundleJs |-> <<1>>],
                     zip |-> FALSE,
                     requests |-> 0]

PublishStep(new) == fnRes' = new /\ UNCHANGED <<sessionVars, fnArg>>

PublishFail(err) == [fnRes EXCEPT !.pc = "done", !.err = err]

\* os.Stat, os.ReadFile, json.Unmarshal and the id read from the map
ReadDashspaceJson ==
    /\ fnRes.pc = "start"
    /\ LET file == fnRes.dir.dashspaceJson
       IN  PublishStep(
             IF file = <<>> THEN PublishFail("dashspace.json not found")
             ELSE IF ~file[1].valid THEN PublishFail("invalid dashspace.json")
             ELSE IF file[1].id = <<>> THEN PublishFail("panic")
             ELSE [fnRes EXCEPT !.pc = "override",
                                !.moduleID = file[1].id[1],
                                !.dashspaceConfig = [id |-> file[1].id[1]]])

\* if overrideModuleID != 0: the id is replaced and dashspace.json rewritten
OverrideModuleID(ok) ==
    /\ fnRes.pc = "override"
    /\ IF fnArg.overrideModuleID = 0
       THEN ok /\ PublishStep([fnRes EXCEPT !.pc = "checkId"])
       ELSE LET cfg == [id |-> fnArg.overrideModuleID]
            IN  \E file \in WriteDashspaceJson(fnRes.dir.dashspaceJson,
                                               MarshalIndent(cfg), ok) :
                  PublishStep([fnRes EXCEPT
                      !.pc = IF ok THEN "checkId" ELSE "done",
                      !.err = IF ok THEN "" ELSE "failed to update dashspace.json",
                      !.moduleID = fnArg.overrideModuleID,
                      !.dashspaceConfig = cfg,
                      !.dir.dashspaceJson = file])

\* if moduleID == 0: error; then the branch on dryRun
CheckModuleID ==
    /\ fnRes.pc = "checkId"
    /\ PublishStep(
         IF fnRes.moduleID = 0 THEN PublishFail("module ID not found")
         ELSE [fnRes EXCEPT !.pc = IF fnArg.dryRun THEN "dryRun" ELSE "zip"])

\* the dry run: the files are listed and the target printed
DryRun ==
    /\ fnRes.pc = "dryRun"
    /\ PublishStep([fnRes EXCEPT !.pc = "done"])

\* the archive is created in the temporary directory
createModuleZip(ok) ==
    /\ fnRes.pc = "zip"
    /\ PublishStep(IF ok THEN [fnRes EXCEPT !.pc = "upload", !.zip = TRUE]
                   ELSE PublishFail("failed to create archive"))

\* one POST request; the archive is removed when publishModule returns
uploadToModly(ok) ==
    /\ fnRes.pc = "upload"
    /\ PublishStep([fnRes EXCEPT !.pc = "done",
                                 !.requests = @ + 1,
                                 !.zip = FALSE,
                                 !.err = IF ok THEN "" ELSE "upload failed"])

NextPublish ==
    \/ ReadDashspaceJson
    \/ \E ok \in BOOLEAN : OverrideModuleID(ok)
    \/ CheckModuleID
    \/ DryRun
    \/ \E ok \in BOOLEAN : createModuleZip(ok)
    \/ \E ok \in BOOLEAN : uploadToModly(ok)

SpecPublish == InitPublish /\ [][NextPublish]_vars

\* C30: a publish run with --dry-run makes no upload request and leaves
\* every file of the build directory as it was, whatever the other flags.
C30_DryRunChangesNothing ==
    fnArg.dryRun => fnRes.requests = 0 /\ fnRes.dir = fnArg.dir

\* C30, the case: a dry run with a module-id override that finished without
\* an upload and with another dashspace.json than it found.
C30_DryRunRewroteDashspaceJson ==
    /\ fnArg.dryRun
    /\ fnArg.overrideModuleID # 0
    /\ fnRes.pc = "done"
    /\ fnRes.err = ""
    /\ fnRes.requests = 0
    /\ fnRes.dir.bundleJs = fnArg.dir.bundleJs
    /\ fnRes.dir.dashspaceJson # fnArg.dir.dashspaceJson

====
